---- MODULE Spec2Model ----
(***************************************************************************)
(* A model of smith, the microcontainer builder: the NSS populator         *)
(* (ParseUser, PopulateNss), the OCI image writer and reader (WriteOciTar, *)
(* imageFromFile, imageFromDigest) and the tree copier (CopyTree, copier,  *)
(* walkAndCopySymlinks, Deps).  Each subsystem has its own specification   *)
(* over the module's variables: SpecNss, SpecOci and SpecCopy.             *)
(***************************************************************************)
EXTENDS Integers, Sequences, FiniteSets, TLC

VARIABLES
    nssPc,      \* "start" | "done": position of the NSS call
    nssCall,    \* the call made: [op, user, groups, nss]
    nssRet,     \* what the call returned
    etcFiles,   \* <outputDir>/etc: file name -> lines, or Absent
    etcWrote,   \* the names ioutil.WriteFile was called for
    tarfile,    \* the OCI archive on disk: its tar entries in order, or NoFile
    remote,     \* what the registry serves: the tag's manifest and the blobs
    image,      \* the *Image last passed to WriteOciTar, as WriteOciTar left it
    loaded,     \* the *Image the last reader (imageFromFile) returned
    ociRet,     \* the last OCI operation and how it returned
    ociOps,     \* OCI operations run so far
    fs,         \* the file system: the node at each location, chroot and output
    copyCfg,    \* the CopyTree call: its paths, excludes, flags and the soMap
    stack,      \* the walks and dependency loops of the call still to run
    copyRet,    \* where the CopyTree call is and the error it returned
    copyLog,    \* what the call did: symlinks traversed, files copied, warnings
    resolver,   \* walkAndCopySymlinks in progress: the variables of its loop
    ldso,       \* the loader cache: the listing read, the soMap built, the lookup
    unpack,     \* ExtractOci: the destination tree and the tar entry last read
    push,       \* ImageToRepo: the registry, the requests sent and the return
    pipe,       \* layerFromPath: the tar stream, the compressor and the layer made
    build       \* buildContainer: the runs, the unpack directory and the config made

nssVars == <<nssPc, nssCall, nssRet, etcFiles, etcWrote>>

ociVars == <<tarfile, remote, image, loaded, ociRet, ociOps>>

copyVars == <<fs, copyCfg, stack, copyRet, copyLog, resolver>>

restVars == <<ldso, unpack, push, pipe, build>>

vars == <<nssPc, nssCall, nssRet, etcFiles, etcWrote,
          tarfile, remote, image, loaded, ociRet, ociOps,
          fs, copyCfg, stack, copyRet, copyLog, resolver,
          ldso, unpack, push, pipe, build>>

\* the values the OCI variables hold while no image has been read or written
NoTar == [exists |-> FALSE, entries |-> <<>>]

NoRemote == [manifest |-> [ok |-> FALSE, data |-> [kind |-> "bytes", b |-> <<>>]], blobs |-> <<>>]

NoMetadata == [set |-> FALSE, Buildno |-> "", BuildTime |-> [set |-> FALSE, sec |-> 0, nsec |-> 0]]

NoImage ==
    [nil |-> TRUE,
     Config |-> [Created |-> [set |-> FALSE, sec |-> 0, nsec |-> 0], DiffIDs |-> <<>>, Cmd |-> 0],
     Layers |-> <<>>, AdditionalBlobs |-> <<>>, Metadata |-> NoMetadata]

NoRet == [op |-> "none", err |-> "", tag |-> ""]

OciIdle ==
    /\ tarfile = NoTar
    /\ remote = NoRemote
    /\ image = NoImage
    /\ loaded = NoImage
    /\ ociRet = NoRet
    /\ ociOps = 0

\* the values the CopyTree variables hold while no tree is copied
NoLog ==
    [traversed |-> {}, copied |-> {}, warned |-> {}, found |-> {}, order |-> <<>>,
     failed |-> {}]

\* no call of walkAndCopySymlinks is in progress
NoResolver ==
    [on |-> FALSE, over |-> FALSE, err |-> "", path |-> <<>>, b |-> <<>>, n |-> 0,
     traversed |-> {}]

CopyIdle ==
    /\ resolver = NoResolver
    /\ fs = <<>>
    /\ copyCfg = <<>>
    /\ stack = <<>>
    /\ copyRet = [pc |-> "idle", err |-> ""]
    /\ copyLog = NoLog

\* the values the remaining variables hold while their subsystem is not run
NoLdso == [pc |-> "idle", lines |-> <<>>, out |-> <<>>, soMap |-> <<>>, lib |-> "", ret |-> <<>>]

NoUnpack == [pc |-> "idle"]

NoPush == [pc |-> "idle"]

NoPipe == [pc |-> "idle"]

NoBuild == [pc |-> "idle"]

RestIdle ==
    /\ ldso = NoLdso
    /\ unpack = NoUnpack
    /\ push = NoPush
    /\ pipe = NoPipe
    /\ build = NoBuild

(***************************************************************************)
(* Strings are sequences of one-character strings, so that splitting,      *)
(* number parsing and formatting are computed and not assumed.             *)
(***************************************************************************)
Digits == <<"0", "1", "2", "3", "4", "5", "6", "7", "8", "9">>

IsDigit(c) == \E i \in 1..10 : Digits[i] = c

DigitVal(c) == (CHOOSE i \in 1..10 : Digits[i] = c) - 1

RECURSIVE DigitsVal(_)
DigitsVal(s) ==
    IF s = <<>> THEN 0
    ELSE 10 * DigitsVal(SubSeq(s, 1, Len(s) - 1)) + DigitVal(s[Len(s)])

\* strconv.Atoi: an optional sign and at least one digit, nothing else
Atoi(s) ==
    LET signed == s # <<>> /\ s[1] \in {"+", "-"}
        body   == IF signed THEN Tail(s) ELSE s
    IN IF body # <<>> /\ \A i \in 1..Len(body) : IsDigit(body[i])
       THEN [ok |-> TRUE,
             val |-> IF signed /\ s[1] = "-" THEN 0 - DigitsVal(body)
                     ELSE DigitsVal(body)]
       ELSE [ok |-> FALSE, val |-> 0]

RECURSIVE ItoaNat(_)
ItoaNat(n) ==
    IF n < 10 THEN <<Digits[n + 1]>>
    ELSE ItoaNat(n \div 10) \o <<Digits[(n % 10) + 1]>>

\* the %d verb of fmt.Sprintf
Itoa(n) == IF n < 0 THEN <<"-">> \o ItoaNat(0 - n) ELSE ItoaNat(n)

RECURSIVE SplitFrom(_, _, _)
SplitFrom(s, sep, acc) ==
    IF s = <<>> THEN <<acc>>
    ELSE IF s[1] = sep THEN <<acc>> \o SplitFrom(Tail(s), sep, <<>>)
    ELSE SplitFrom(Tail(s), sep, Append(acc, s[1]))

\* strings.Split for a one-character separator
Split(s, sep) == SplitFrom(s, sep, <<>>)

RECURSIVE Join(_, _)
\* strings.Join for a one-character separator
Join(parts, sep) ==
    IF parts = <<>> THEN <<>>
    ELSE IF Len(parts) = 1 THEN parts[1]
    ELSE parts[1] \o <<sep>> \o Join(Tail(parts), sep)

Colon == ":"

(***************************************************************************)
(* The NSS populator.                                                      *)
(***************************************************************************)
DefaultID == 10

sRoot   == <<"r", "o", "o", "t">>
sDaemon == <<"d", "a", "e", "m", "o", "n">>
sBin    == <<"b", "i", "n">>
sSys    == <<"s", "y", "s">>
sAdm    == <<"a", "d", "m">>
sTty    == <<"t", "t", "y">>
sSmith  == <<"s", "m", "i", "t", "h">>
sFoo    == <<"f", "o", "o">>
sDev    == <<"d", "e", "v">>
sOps    == <<"o", "p", "s">>
sX      == <<"x">>
sWrite  == <<"/", "w", "r", "i", "t", "e">>

defaultUsers ==
    << Join(<<sRoot, sX, <<"0">>, <<"0">>, sRoot, sWrite, <<>>>>, Colon),
       Join(<<sDaemon, sX, <<"1">>, <<"1">>, sDaemon, sWrite, <<>>>>, Colon),
       Join(<<sBin, sX, <<"2">>, <<"2">>, sBin, sWrite, <<>>>>, Colon),
       Join(<<sSys, sX, <<"3">>, <<"3">>, sSys, sWrite, <<>>>>, Colon) >>

defaultGroups ==
    << Join(<<sRoot, sX, <<"0">>, <<>>>>, Colon),
       Join(<<sDaemon, sX, <<"1">>, <<>>>>, Colon),
       Join(<<sBin, sX, <<"2">>, <<>>>>, Colon),
       Join(<<sSys, sX, <<"3">>, <<>>>>, Colon),
       Join(<<sAdm, sX, <<"4">>, <<>>>>, Colon),
       Join(<<sTty, sX, <<"5">>, <<>>>>, Colon) >>

\* getId's test of one row: the id when the row names name, else -1
getIdRow(parts, name) ==
    IF name = parts[1] /\ Len(parts) > 2 /\ Atoi(parts[3]).ok
    THEN Atoi(parts[3]).val ELSE -1

RECURSIVE getId(_, _)
getId(items, name) ==
    IF items = <<>> THEN -1
    ELSE IF getIdRow(Split(items[1], Colon), name) # -1
         THEN getIdRow(Split(items[1], Colon), name)
         ELSE getId(Tail(items), name)

\* getName's test of one row
getNameRow(parts, id) ==
    Len(parts) > 2 /\ Atoi(parts[3]).ok /\ id = Atoi(parts[3]).val

RECURSIVE getName(_, _)
getName(items, id) ==
    IF items = <<>> THEN <<>>
    ELSE IF getNameRow(Split(items[1], Colon), id)
         THEN Split(items[1], Colon)[1]
         ELSE getName(Tail(items), id)

\* "if uid == -1 { uid = DefaultID }"
OrDefaultID(id) == IF id = -1 THEN DefaultID ELSE id

\* "if u == "" { u = "smith" }"
OrSmith(name) == IF name = <<>> THEN sSmith ELSE name

\* ParseHalfOf raising the flag only for a name the default table lacks
ParseHalfOfUnknownOnly(items, h, a) ==
    [id    |-> OrDefaultID(IF a.ok THEN a.val ELSE getId(items, h)),
     name  |-> OrSmith(IF a.ok THEN getName(items, a.val) ELSE h),
     named |-> ~a.ok /\ h # <<>> /\ getId(items, h) = -1]

\* One half of ParseUser, a being strconv.Atoi of the half: the id, the name
\* and whether the half is a name.
ParseHalfOf(items, h, a) ==
    [id    |-> OrDefaultID(IF a.ok THEN a.val ELSE getId(items, h)),
     name  |-> OrSmith(IF a.ok THEN getName(items, a.val) ELSE h),
     named |-> ~a.ok /\ h # <<>>]

ParseHalf(items, h) == ParseHalfOf(items, h, Atoi(h))

ParseUserOf(pu, pg) ==
    [uid |-> pu.id, gid |-> pg.id, u |-> pu.name, g |-> pg.name,
     nss |-> pu.named \/ pg.named]

ParseUserParts(parts) ==
    ParseUserOf(ParseHalf(defaultUsers, parts[1]),
                ParseHalf(defaultGroups, IF Len(parts) > 1 THEN parts[2] ELSE <<>>))

ParseUser(user) == ParseUserParts(Split(user, Colon))

Absent == <<"absent">>

NoEtc == [f \in {"group", "passwd", "nsswitch.conf"} |-> Absent]

RECURSIVE ExtraGroups(_, _, _)
\* The loop of PopulateNss over the requested groups: the rows to add, each
\* [group, id, members], numbered from groupid.
ExtraGroups(groups, groupid, u) ==
    IF groups = <<>> THEN <<>>
    ELSE IF getId(defaultGroups, groups[1]) # -1
         THEN ExtraGroups(Tail(groups), groupid, u)
         ELSE <<[group |-> groups[1], id |-> groupid + 1, members |-> u]>>
              \o ExtraGroups(Tail(groups), groupid + 1, u)

RECURSIVE GroupRows(_)
GroupRows(rows) ==
    IF rows = <<>> THEN <<>>
    ELSE (IF rows[1].id < Len(defaultGroups) THEN <<>>
          ELSE <<Join(<<rows[1].group, sX, Itoa(rows[1].id), rows[1].members>>, Colon)>>)
         \o GroupRows(Tail(rows))

\* the lines populateGroups writes to etc/group
populateGroups(rows) == defaultGroups \o GroupRows(rows)

\* the lines populateUsers writes to etc/passwd for the one user it is given
populateUsers(user, id) ==
    IF id < Len(defaultUsers) THEN defaultUsers
    ELSE Append(defaultUsers,
                Join(<<user, sX, Itoa(id), Itoa(id), user, sWrite>>, Colon))

\* the lines populateNsswitch writes to etc/nsswitch.conf
populateNsswitch == <<"passwd:     files", "shadow:     files",
                      "group:      files", "hosts:      files dns">>

\* The writes of PopulateNss, in order, up to the step that fails.
WriteNss(files, group, passwd, fail) ==
    IF fail \in {"mkdir", "group"}
    THEN [ret |-> FALSE, err |-> TRUE, files |-> files, wrote |-> {}]
    ELSE IF fail = "passwd"
    THEN [ret |-> FALSE, err |-> TRUE, wrote |-> {"group"},
          files |-> [files EXCEPT !["group"] = group]]
    ELSE IF fail = "nsswitch.conf"
    THEN [ret |-> FALSE, err |-> TRUE, wrote |-> {"group", "passwd"},
          files |-> [files EXCEPT !["group"] = group, !["passwd"] = passwd]]
    ELSE [ret |-> TRUE, err |-> FALSE, wrote |-> {"group", "passwd", "nsswitch.conf"},
          files |-> [files EXCEPT !["group"] = group, !["passwd"] = passwd,
                                  !["nsswitch.conf"] = populateNsswitch]]

\* PopulateNssOf without the test of its nss argument
PopulateNssOfNoFlag(files, p, groups, nss, fail) ==
    IF ~p.nss /\ Len(groups) = 0
    THEN [ret |-> FALSE, err |-> FALSE, files |-> files, wrote |-> {}]
    ELSE WriteNss(files,
                  populateGroups(<<[group |-> p.g, id |-> p.gid, members |-> <<>>]>>
                                 \o ExtraGroups(groups, p.gid, p.u)),
                  populateUsers(p.u, p.uid),
                  fail)

\* PopulateNss after its call of ParseUser, which returned p
PopulateNssOf(files, p, groups, nss, fail) ==
    IF ~nss /\ ~p.nss /\ Len(groups) = 0
    THEN [ret |-> FALSE, err |-> FALSE, files |-> files, wrote |-> {}]
    ELSE WriteNss(files,
                  populateGroups(<<[group |-> p.g, id |-> p.gid, members |-> <<>>]>>
                                 \o ExtraGroups(groups, p.gid, p.u)),
                  populateUsers(p.u, p.uid),
                  fail)

\* PopulateNss(outputDir, user, groups, nss) on an etc directory holding files;
\* fail names the I/O step that fails ("none" when every step succeeds).
PopulateNss(files, user, groups, nss, fail) ==
    PopulateNssOf(files, ParseUser(user), groups, nss, fail)

(***************************************************************************)
(* Inputs of the NSS populator.                                            *)
(***************************************************************************)
MaxId == 4
MaxGroups == 2

\* the halves of a user string: empty, numerals (one with leading zeros) and names
HalfTokens ==
    {<<>>, <<"0", "0", "3">>, Itoa(1000)} \cup {Itoa(n) : n \in 0..MaxId}
    \cup {sRoot, sAdm, sFoo}

GroupNames == {sAdm, sDev, sOps}

\* lists of distinct requested groups
GroupLists ==
    UNION {{l \in [1..n -> GroupNames] : \A i, j \in 1..n : l[i] = l[j] => i = j}
           : n \in 0..MaxGroups}

FailSteps == {"none", "mkdir", "group", "passwd", "nsswitch.conf"}

NoCall == [op |-> "none"]

\* the user string u[:g] of two halves
UserString(u, sep, g) == IF sep THEN u \o <<Colon>> \o g ELSE u

\* A call records the user string passed and the halves it was built from.
InitNss ==
    /\ nssPc = "start"
    /\ \E u \in HalfTokens, g \in HalfTokens, sep \in BOOLEAN :
         \/ nssCall = [op |-> "ParseUser", user |-> UserString(u, sep, g),
                       halves |-> <<u, IF sep THEN g ELSE <<>>>>]
         \/ \E groups \in GroupLists, nss \in BOOLEAN :
              nssCall = [op |-> "PopulateNss", user |-> UserString(u, sep, g),
                         halves |-> <<u, IF sep THEN g ELSE <<>>>>,
                         groups |-> groups, nss |-> nss]
    /\ nssRet = NoCall
    /\ etcFiles = NoEtc
    /\ etcWrote = {}
    /\ OciIdle
    /\ CopyIdle
    /\ RestIdle

DoParseUser ==
    /\ nssPc = "start"
    /\ nssCall.op = "ParseUser"
    /\ nssRet' = ParseUser(nssCall.user)
    /\ nssPc' = "done"
    /\ UNCHANGED <<nssCall, etcFiles, etcWrote>>
    /\ UNCHANGED ociVars
    /\ UNCHANGED copyVars
    /\ UNCHANGED restVars

NssReturn(r) ==
    /\ nssRet' = [ret |-> r.ret, err |-> r.err]
    /\ etcFiles' = r.files
    /\ etcWrote' = r.wrote

DoPopulateNss ==
    /\ nssPc = "start"
    /\ nssCall.op = "PopulateNss"
    /\ \E fail \in FailSteps :
         NssReturn(PopulateNss(etcFiles, nssCall.user, nssCall.groups, nssCall.nss, fail))
    /\ nssPc' = "done"
    /\ UNCHANGED nssCall
    /\ UNCHANGED ociVars
    /\ UNCHANGED copyVars
    /\ UNCHANGED restVars

NextNss == DoParseUser \/ DoPopulateNss

SpecNss == InitNss /\ [][NextNss]_vars


(***************************************************************************)
(* OCI images (oci.go).  A blob is either raw bytes, a sequence of numbers *)
(* (a gzipped layer, an opaque blob), or a JSON document, a record with a  *)
(* kind; Bytes gives the bytes json.Marshal writes for a document.         *)
(***************************************************************************)
dockerLayerMT == "application/vnd.docker.image.rootfs.diff.tar.gzip"
layerMT == "application/vnd.oci.image.layer.v1.tar+gzip"
configMT == "application/vnd.oci.image.config.v1+json"
manifestMT == "application/vnd.oci.image.manifest.v1+json"
specMT == "application/vnd.smith.spec+json"
packagesMT == "application/vnd.smith.packages"

\* a digest "<alg>:<hex>"; the empty digest "" has no algorithm and no hex
NoDigest == [alg |-> "", hex |-> <<>>]

\* gdigest.FromBytes(b): the digest of the bytes b, one hex string per content
digest(b) == [alg |-> "sha256", hex |-> b]

\* a digest a registry may use in place of sha256
digest512(b) == [alg |-> "sha512", hex |-> b \o b]

\* the rank of the directory name of an algorithm among strings
AlgCode(alg) == IF alg = "sha256" THEN 256 ELSE IF alg = "sha512" THEN 512 ELSE 0

\* a *time.Time: nil, or seconds and nanoseconds
NoTime == NoMetadata.BuildTime

Time(sec, nsec) == [set |-> TRUE, sec |-> sec, nsec |-> nsec]

\* t.Format(time.RFC3339): the text of t to the second
FormatRFC3339(t) == <<"T", t.sec>>

\* time.Parse(time.RFC3339, s): "" and other texts do not parse
ParseRFC3339(s) ==
    IF Len(s) = 2 /\ s[1] = "T" THEN [ok |-> TRUE, t |-> Time(s[2], 0)]
    ELSE [ok |-> FALSE, t |-> NoTime]

\* annotations as the code looks them up: a missing key reads as ""
NoAnnotations == [refName |-> "", created |-> <<>>, build |-> "", version |-> ""]

\* v1.Descriptor
Descriptor(mt, dg, size, ann) ==
    [MediaType |-> mt, Digest |-> dg, Size |-> size, Annotations |-> ann]

NoDescriptor == Descriptor("", NoDigest, 0, NoAnnotations)

MediaCode(mt) ==
    IF mt = layerMT THEN 1 ELSE IF mt = dockerLayerMT THEN 2
    ELSE IF mt = configMT THEN 3 ELSE IF mt = manifestMT THEN 4
    ELSE IF mt = specMT THEN 5 ELSE IF mt = packagesMT THEN 6 ELSE 0

BytesOfDigest(d) == <<AlgCode(d.alg), Len(d.hex)>> \o d.hex

RECURSIVE BytesOfDigests(_)
BytesOfDigests(ds) ==
    IF ds = <<>> THEN <<>> ELSE BytesOfDigest(Head(ds)) \o BytesOfDigests(Tail(ds))

BytesOfTime(t) == <<IF t.set THEN 1 ELSE 0, t.sec, t.nsec>>

BytesOfText(s) == IF s = <<>> THEN <<0>> ELSE <<1, s[2]>>

BytesOfDescriptor(d) ==
    <<MediaCode(d.MediaType)>> \o BytesOfDigest(d.Digest) \o <<d.Size>>
    \o BytesOfText(d.Annotations.created)

RECURSIVE BytesOfDescriptors(_)
BytesOfDescriptors(ds) ==
    IF ds = <<>> THEN <<>>
    ELSE BytesOfDescriptor(Head(ds)) \o BytesOfDescriptors(Tail(ds))

\* the bytes of a blob: raw bytes as they are, a document as json.Marshal writes it
Bytes(blob) ==
    IF blob.kind = "bytes" THEN blob.b
    ELSE IF blob.kind = "config"
    THEN <<123, 1>> \o BytesOfTime(blob.created) \o <<blob.rest, Len(blob.diffIDs)>>
         \o BytesOfDigests(blob.diffIDs)
    ELSE IF blob.kind = "manifest"
    THEN <<123, 2>> \o BytesOfDescriptor(blob.config) \o BytesOfText(blob.created)
         \o <<Len(blob.layers)>> \o BytesOfDescriptors(blob.layers)
    ELSE <<123, 3>>

Raw(b) == [kind |-> "bytes", b |-> b]

\* desc(mt, b, digest)
desc(mt, b, dg) == Descriptor(mt, dg, Len(b), NoAnnotations)

(***************************************************************************)
(* Reading an image: extractFile, digestExtractor, ImageGetter and         *)
(* imageFromDigest.                                                        *)
(***************************************************************************)
\* the name of a tar entry: its directory, and its file name or, for a blob,
\* the hex of its digest
FileName(file) == [dir |-> <<>>, file |-> file, hex |-> <<>>]

\* filepath.Join("blobs", digest.Algorithm(), digest.Hex())
BlobName(dg) == [dir |-> <<"blobs", dg.alg>>, file |-> "", hex |-> dg.hex]

SomeBlob == [ok |-> TRUE, data |-> Raw(<<>>)]

NotFound == [ok |-> FALSE, data |-> Raw(<<>>)]

\* extractFile(tarfile, filename): the data of the first entry of that name
extractFile(tar, filename) ==
    IF ~tar.exists \/ \A i \in 1..Len(tar.entries) : tar.entries[i].name # filename
    THEN NotFound
    ELSE [ok |-> TRUE,
          data |-> tar.entries[CHOOSE i \in 1..Len(tar.entries) :
                                  /\ tar.entries[i].name = filename
                                  /\ \A j \in 1..(i - 1) : tar.entries[j].name # filename].data]

\* the digest "manifest" ImageFromRepo asks the getter for
ManifestRef == [alg |-> "manifest", hex |-> <<>>]

\* GetObject on manifests/<tag> or blobs/<digest>: what the registry serves
GetObject(rem, dg) ==
    IF dg = ManifestRef THEN rem.manifest
    ELSE IF \A i \in 1..Len(rem.blobs) : rem.blobs[i].digest # dg THEN NotFound
    ELSE [ok |-> TRUE,
          data |-> rem.blobs[CHOOSE i \in 1..Len(rem.blobs) :
                                /\ rem.blobs[i].digest = dg
                                /\ \A j \in 1..(i - 1) : rem.blobs[j].digest # dg].data]

\* an Extractor: digestExtractor(tarfile) or r.ImageGetter(info)
TarSource(tar) == [kind |-> "tar", tar |-> tar, remote |-> NoRemote]

RemoteSource(rem) == [kind |-> "remote", tar |-> NoTar, remote |-> rem]

extract(src, dg) ==
    IF src.kind = "tar" THEN extractFile(src.tar, BlobName(dg))
    ELSE GetObject(src.remote, dg)

\* json.Unmarshal into a v1.Manifest: raw bytes are no JSON; a document of
\* another kind leaves every field zero
UnmarshalManifest(blob) ==
    IF blob.kind = "bytes" THEN [ok |-> FALSE, config |-> NoDescriptor, layers |-> <<>>,
                                 created |-> <<>>]
    ELSE IF blob.kind = "manifest"
    THEN [ok |-> TRUE, config |-> blob.config, layers |-> blob.layers,
          created |-> blob.created]
    ELSE [ok |-> TRUE, config |-> NoDescriptor, layers |-> <<>>, created |-> <<>>]

\* json.Unmarshal into a v1.Image
UnmarshalConfig(blob) ==
    IF blob.kind = "bytes" THEN [ok |-> FALSE, Created |-> NoTime, DiffIDs |-> <<>>, Cmd |-> 0]
    ELSE IF blob.kind = "config"
    THEN [ok |-> TRUE, Created |-> blob.created, DiffIDs |-> blob.diffIDs, Cmd |-> blob.rest]
    ELSE [ok |-> TRUE, Created |-> NoTime, DiffIDs |-> <<>>, Cmd |-> 0]

Failed(msg) == [err |-> msg, image |-> NoImage]

\* the loop over manifest.Layers of imageFromDigest, from layer i on
RECURSIVE ReadLayers(_, _, _, _, _)
ReadLayers(src, layers, diffIDs, i, acc) ==
    IF i > Len(layers) THEN [err |-> "", layers |-> acc]
    ELSE IF layers[i].Digest = NoDigest
    THEN [err |-> "image config has an invalid layer reference", layers |-> <<>>]
    ELSE IF ~extract(src, layers[i].Digest).ok
    THEN [err |-> "not found", layers |-> <<>>]
    ELSE ReadLayers(src, layers, diffIDs, i + 1,
                    Append(acc, [Desc |-> layers[i], DiffID |-> diffIDs[i],
                                 Data |-> extract(src, layers[i].Digest).data]))

\* CreatedOf reading the manifest's annotation only
CreatedOfManifestOnly(created, manifestCreated, annotations) ==
    IF created.set THEN created
    ELSE IF ParseRFC3339(manifestCreated).ok THEN ParseRFC3339(manifestCreated).t
    ELSE NoTime

\* config.Created after the image config is read: kept when set, else parsed from the
\* manifest's annotation or, when that is empty, from the given annotations
CreatedOf(created, manifestCreated, annotations) ==
    IF created.set THEN created
    ELSE IF manifestCreated # <<>>
    THEN (IF ParseRFC3339(manifestCreated).ok THEN ParseRFC3339(manifestCreated).t ELSE NoTime)
    ELSE (IF ParseRFC3339(annotations.created).ok THEN ParseRFC3339(annotations.created).t
          ELSE NoTime)

ImageOfLayers(config, r) ==
    IF r.err # "" THEN Failed(r.err)
    ELSE [err |-> "",
          image |-> [nil |-> FALSE, Config |-> config, Layers |-> r.layers,
                     AdditionalBlobs |-> <<>>, Metadata |-> NoMetadata]]

ImageOfConfig(src, manifest, config, annotations) ==
    IF ~config.ok THEN Failed("error unmarshaling image config json")
    ELSE IF Len(manifest.layers) # Len(config.DiffIDs)
    THEN Failed("number of layers and number of diffIDs don't match")
    ELSE ImageOfLayers([Created |-> CreatedOf(config.Created, manifest.created, annotations),
                        DiffIDs |-> config.DiffIDs, Cmd |-> config.Cmd],
                       ReadLayers(src, manifest.layers, config.DiffIDs, 1, <<>>))

ImageOfConfigBlob(src, manifest, configb, annotations) ==
    IF ~configb.ok THEN Failed("not found")
    ELSE ImageOfConfig(src, manifest, UnmarshalConfig(configb.data), annotations)

ImageOfManifest(src, manifest, annotations) ==
    IF ~manifest.ok THEN Failed("error unmarshaling image manifest")
    ELSE IF manifest.config.Digest = NoDigest
    THEN Failed("manifest has no referenced config")
    ELSE ImageOfConfigBlob(src, manifest, extract(src, manifest.config.Digest), annotations)

ImageOfManifestBlob(src, manb, annotations) ==
    IF ~manb.ok THEN Failed("not found")
    ELSE ImageOfManifest(src, UnmarshalManifest(manb.data), annotations)

\* imageFromDigest(extract, digest, annotations)
imageFromDigest(src, dg, annotations) ==
    ImageOfManifestBlob(src, extract(src, dg), annotations)

(***************************************************************************)
(* Writing an image: layerFromPath, serializeConfig, serializeManifest,    *)
(* WriteOciTar.                                                            *)
(***************************************************************************)
\* the tar stream tarWriteFunc writes for the rootfs with contents t
TarOf(t) == <<t>>

\* the stream MaybeGzipWriter makes of b
Gzip(b) == <<31, 139>> \o b

\* layerFromPath(path, uid, gid) on a rootfs with contents t
layerFromPath(t) ==
    [Desc |-> desc(layerMT, Gzip(TarOf(t)), digest(Gzip(TarOf(t)))),
     DiffID |-> digest(TarOf(t)),
     Data |-> Raw(Gzip(TarOf(t)))]

DiffIDsOf(layers) == [i \in 1..Len(layers) |-> layers[i].DiffID]

\* serializeConfig leaves image.Config, which it writes through, with the
\* rootfs section regenerated
ConfigOf(img) ==
    [Created |-> img.Config.Created, DiffIDs |-> DiffIDsOf(img.Layers), Cmd |-> img.Config.Cmd]

\* serializeConfig(image): the document json.Marshal writes; created is left
\* out when Created is nil
serializeConfig(img) ==
    [kind |-> "config", created |-> img.Config.Created,
     diffIDs |-> DiffIDsOf(img.Layers), rest |-> img.Config.Cmd]

\* serializeManifest listing the layers last first
serializeManifestReversed(conf, layers) ==
    [kind |-> "manifest",
     config |-> [conf EXCEPT !.MediaType = configMT],
     layers |-> [i \in 1..Len(layers) |->
                    [layers[Len(layers) + 1 - i].Desc EXCEPT !.MediaType = layerMT]],
     created |-> <<>>]

\* serializeManifest(conf, layers, false)
serializeManifest(conf, layers) ==
    [kind |-> "manifest",
     config |-> [conf EXCEPT !.MediaType = configMT],
     layers |-> [i \in 1..Len(layers) |-> [layers[i].Desc EXCEPT !.MediaType = layerMT]],
     created |-> <<>>]

\* the descriptor of a document under its sha256
DescOf(mt, doc) == desc(mt, Bytes(doc), digest(Bytes(doc)))

\* the assignments to fileData, in the order WriteOciTar makes them
LayerPuts(layers) ==
    [i \in 1..Len(layers) |-> [name |-> BlobName(layers[i].Desc.Digest), data |-> layers[i].Data]]

BlobPuts(blobs) ==
    [i \in 1..Len(blobs) |->
        [name |-> BlobName(digest(blobs[i].Content)), data |-> Raw(blobs[i].Content)]]

DocPut(doc) == [name |-> BlobName(digest(Bytes(doc))), data |-> doc]

ManifestOf(img) == serializeManifest(DescOf(configMT, serializeConfig(img)), img.Layers)

FileData(img) ==
    LayerPuts(img.Layers) \o <<DocPut(serializeConfig(img)), DocPut(ManifestOf(img))>>
    \o BlobPuts(img.AdditionalBlobs)

\* fileData[name]: the last assignment to the key
DataAt(puts, name) ==
    puts[CHOOSE i \in 1..Len(puts) :
            /\ puts[i].name = name
            /\ \A j \in (i + 1)..Len(puts) : puts[j].name # name].data

\* the keys of fileData, each once, in the order of their first assignment
RECURSIVE Keys(_, _, _)
Keys(puts, i, acc) ==
    IF i > Len(puts) THEN acc
    ELSE IF \E j \in 1..Len(acc) : acc[j] = puts[i].name THEN Keys(puts, i + 1, acc)
    ELSE Keys(puts, i + 1, Append(acc, puts[i].name))

\* range over the map: the keys from a start the runtime draws, wrapping round
RangeOver(keys, start) ==
    [i \in 1..Len(keys) |-> keys[((start + i - 2) % Len(keys)) + 1]]

RECURSIVE SeqLess(_, _)
SeqLess(a, b) ==
    IF a = <<>> THEN b # <<>>
    ELSE IF b = <<>> THEN FALSE
    ELSE IF Head(a) # Head(b) THEN Head(a) < Head(b)
    ELSE SeqLess(Tail(a), Tail(b))

\* the order of strings on two names blobs/<alg>/<hex>
NameLess(a, b) ==
    IF a.dir[2] # b.dir[2] THEN AlgCode(a.dir[2]) < AlgCode(b.dir[2])
    ELSE SeqLess(a.hex, b.hex)

RECURSIVE Insert(_, _)
Insert(sorted, x) ==
    IF sorted = <<>> THEN <<x>>
    ELSE IF NameLess(x, Head(sorted)) THEN <<x>> \o sorted
    ELSE <<Head(sorted)>> \o Insert(Tail(sorted), x)

\* the filenames left in the order of the range
SortStringsNone(names) == names

\* sort.Strings(filenames)
RECURSIVE SortStrings(_)
SortStrings(names) ==
    IF names = <<>> THEN <<>> ELSE Insert(SortStrings(Tail(names)), Head(names))

\* filepath.Dir(filename)
Dir(name) ==
    [dir |-> SubSeq(name.dir, 1, Len(name.dir) - 1), file |-> name.dir[Len(name.dir)],
     hex |-> <<>>]

\* writeDirTar and writeFileTar: the entry each adds to the archive
DirEntry(name) == [type |-> "dir", name |-> name, data |-> Raw(<<>>)]

FileEntry(name, data) == [type |-> "file", name |-> name, data |-> data]

\* the loop over the sorted filenames: a directory entry the first time a
\* directory is met, then the file
RECURSIVE WriteBlobs(_, _, _, _)
WriteBlobs(filenames, puts, dirs, acc) ==
    IF filenames = <<>> THEN acc
    ELSE IF Dir(Head(filenames)) \in dirs
    THEN WriteBlobs(Tail(filenames), puts, dirs,
                    Append(acc, FileEntry(Head(filenames), DataAt(puts, Head(filenames)))))
    ELSE WriteBlobs(Tail(filenames), puts, dirs \cup {Dir(Head(filenames))},
                    acc \o <<DirEntry(Dir(Head(filenames))),
                             FileEntry(Head(filenames), DataAt(puts, Head(filenames)))>>)

SmithVer == "v"

\* LatestAnnotations set only for a numbered build
LatestAnnotationsNumbered(md) ==
    IF md.set /\ md.Buildno # ""
    THEN [refName |-> "latest", created |-> FormatRFC3339(md.BuildTime),
          build |-> md.Buildno, version |-> "v"]
    ELSE NoAnnotations

\* the annotations of the latest entry: set only when the image has metadata
LatestAnnotations(md) ==
    IF md.set
    THEN [refName |-> "latest", created |-> FormatRFC3339(md.BuildTime),
          build |-> md.Buildno, version |-> SmithVer]
    ELSE NoAnnotations

\* the annotations of the entries of the additional blobs
BlobAnnotations(md) ==
    IF md.set /\ md.Buildno # "" THEN [NoAnnotations EXCEPT !.build = md.Buildno]
    ELSE NoAnnotations

\* imageIndex(allBlobs, nil): the additional blobs, then latest
IndexOf(img) ==
    [kind |-> "index",
     manifests |->
        [i \in 1..Len(img.AdditionalBlobs) |->
            [desc(img.AdditionalBlobs[i].Filetype, img.AdditionalBlobs[i].Content,
                  digest(img.AdditionalBlobs[i].Content))
             EXCEPT !.Annotations = BlobAnnotations(img.Metadata)]]
        \o <<[DescOf(manifestMT, ManifestOf(img))
              EXCEPT !.Annotations = LatestAnnotations(img.Metadata)]>>]

\* WriteOciTar(image, out): the entries written, for the start the range over
\* fileData draws
WriteOciTar(img, start) ==
    <<DirEntry(FileName("blobs"))>>
    \o WriteBlobs(SortStrings(RangeOver(Keys(FileData(img), 1, <<>>), start)),
                  FileData(img), {}, <<>>)
    \o <<FileEntry(FileName("oci-layout"), [kind |-> "layout"]),
         FileEntry(FileName("index.json"), IndexOf(img))>>

(***************************************************************************)
(* imageFromFile, imageFromBuild, WriteOciFromBuild and the registry.      *)
(***************************************************************************)
\* json.Unmarshal of index.json into a v1.Index
UnmarshalIndex(blob) ==
    IF blob.kind = "bytes" THEN [ok |-> FALSE, manifests |-> <<>>]
    ELSE IF blob.kind = "index" THEN [ok |-> TRUE, manifests |-> blob.manifests]
    ELSE [ok |-> TRUE, manifests |-> <<>>]

\* the loop of imageFromFile over ref.Manifests: the last entry named tag
RECURSIVE Locate(_, _, _)
Locate(manifests, tag, found) ==
    IF manifests = <<>> THEN found
    ELSE IF Head(manifests).Annotations.refName = tag
    THEN Locate(Tail(manifests), tag, Head(manifests))
    ELSE Locate(Tail(manifests), tag, found)

ImageOfLocated(tar, found) ==
    IF found.Digest = NoDigest THEN Failed("unable to locate image in index")
    ELSE imageFromDigest(TarSource(tar), found.Digest, found.Annotations)

ImageOfIndex(tar, ref, tag) ==
    IF ~ref.ok THEN Failed("error unmarshaling index.json")
    ELSE ImageOfLocated(tar, Locate(ref.manifests, tag, NoDescriptor))

ImageOfIndexBlob(tar, refb, tag) ==
    IF ~refb.ok THEN Failed("not found")
    ELSE ImageOfIndex(tar, UnmarshalIndex(refb.data), tag)

\* imageFromFile(path) for a path naming tar and tag
imageFromFile(tar, tag) ==
    ImageOfIndexBlob(tar, extractFile(tar, FileName("index.json")), tag)

\* configFromDef keeping the Created of the parent's config
configFromDefKeepCreated(def, parent) ==
    [Created |-> parent.Config.Created, DiffIDs |-> <<>>,
     Cmd |-> IF def.Cmd = 0 THEN parent.Config.Cmd ELSE def.Cmd]

\* configFromDef(def) after setDefaultsFromImage(def, parent): the command of
\* the definition or, when it gives none, of the parent
configFromDef(def, parent) ==
    [Created |-> NoTime, DiffIDs |-> <<>>,
     Cmd |-> IF def.Cmd = 0 THEN parent.Config.Cmd ELSE def.Cmd]

\* the end of imageFromBuild: the layer is added unless its DiffID is there
WithLayer(img, layer) ==
    IF \E i \in 1..Len(img.Layers) : img.Layers[i].DiffID = layer.DiffID THEN img
    ELSE [img EXCEPT !.Layers = Append(img.Layers, layer)]

\* imageFromBuild after the parent, if any, was read as p
ImageOfParent(def, p, t) ==
    IF p.err # "" THEN p
    ELSE [err |-> "",
          image |-> WithLayer([p.image EXCEPT !.nil = FALSE,
                                              !.Config = configFromDef(def, p.image)],
                              layerFromPath(t))]

\* imageFromBuild(def, baseDir) with the parent archive tar and rootfs t
imageFromBuild(def, tar, t) ==
    ImageOfParent(def,
                  IF def.Parent THEN imageFromFile(tar, "latest")
                  ELSE [err |-> "", image |-> NoImage],
                  t)

\* WriteOciFromBuild after imageFromBuild returned r
BuiltImage(r, metadata, blobs) ==
    IF r.err # "" THEN r
    ELSE [err |-> "",
          image |-> [r.image EXCEPT !.AdditionalBlobs = blobs, !.Metadata = metadata]]

\* downloadContainer after imageFromRemote returned r
DownloadedImage(r, metadata) ==
    IF r.err # "" THEN r
    ELSE [err |-> "", image |-> [r.image EXCEPT !.Metadata = metadata]]

\* ImageFromRepo(info)
ImageFromRepo(rem) == imageFromDigest(RemoteSource(rem), ManifestRef, NoAnnotations)

(***************************************************************************)
(* Inputs of the OCI operations: definitions, rootfs contents, build       *)
(* metadata, and the repositories a registry may serve.                    *)
(***************************************************************************)
MaxTar == 2
MaxOps == 3

\* rootfs contents, each standing for the tar stream of one tree
Tars == 1..MaxTar

\* the container definitions: with or without a parent, and a command or none
Defs == [Parent : BOOLEAN, Cmd : {0, 1}]

Times == {Time(1, 1), Time(2, 0)}

\* getMetadata() with the build number of the options
Metadata(now, buildNo) == [set |-> TRUE, Buildno |-> buildNo, BuildTime |-> now]

Metadatas == {Metadata(Time(1, 1), ""), Metadata(Time(2, 0), "7")}

\* the extra blobs of buildContainer: the definition as JSON and, when
\* packages were installed, their list
BlobsOf(def, packages) ==
    <<[Filetype |-> specMT, Content |-> <<123, 9, def.Cmd, IF def.Parent THEN 1 ELSE 0>>]>>
    \o (IF packages THEN <<[Filetype |-> packagesMT, Content |-> <<80>>]>> ELSE <<>>)

Tags == {"latest", "v1"}

TarLists == {[i \in 1..n |-> i] : n \in 0..MaxTar}

\* how a repository may differ from an image pushed whole: a layer blob with
\* other bytes than its digest names, a config with one diff ID fewer, layers
\* named by sha512, a layer blob that is not there
Variants == {"swapped", "count", "sha512", "missing"}

RemoteLayer(t, variant) ==
    [layerFromPath(t) EXCEPT
        !.Desc = Descriptor(dockerLayerMT,
                            IF variant = "sha512" THEN digest512(Gzip(TarOf(t)))
                            ELSE digest(Gzip(TarOf(t))),
                            Len(Gzip(TarOf(t))), NoAnnotations),
        !.Data = IF variant = "swapped" THEN Raw(Gzip(TarOf(0))) ELSE Raw(Gzip(TarOf(t)))]

RemoteConfig(layers, created, variant) ==
    [kind |-> "config", created |-> created,
     diffIDs |-> IF variant = "count" THEN Tail(DiffIDsOf(layers)) ELSE DiffIDsOf(layers),
     rest |-> 1]

RemoteBlobs(layers, config, variant) ==
    <<[digest |-> digest(Bytes(config)), data |-> config]>>
    \o (IF variant = "missing" THEN <<>>
        ELSE [i \in 1..Len(layers) |-> [digest |-> layers[i].Desc.Digest,
                                         data |-> layers[i].Data]])

RemoteOfLayers(layers, config, mcreated, variant) ==
    [manifest |->
        [ok |-> TRUE,
         data |-> [kind |-> "manifest", config |-> DescOf(configMT, config),
                   layers |-> [i \in 1..Len(layers) |-> layers[i].Desc],
                   created |-> mcreated]],
     blobs |-> RemoteBlobs(layers, config, variant)]

RemoteOfTars(layers, created, mcreated, variant) ==
    RemoteOfLayers(layers, RemoteConfig(layers, created, variant), mcreated, variant)

\* the repository holding the image of the rootfs contents tars, its config
\* created at created, its manifest annotated mcreated
RemoteOf(tars, created, mcreated, variant) ==
    RemoteOfTars([i \in 1..Len(tars) |-> RemoteLayer(tars[i], variant)],
                 created, mcreated, variant)

Remotes ==
    {RemoteOf(tars, cm[1], cm[2], "ok") :
        tars \in TarLists,
        cm \in {<<NoTime, <<>>>>, <<Time(3, 0), <<>>>>, <<NoTime, FormatRFC3339(Time(4, 0))>>}}
    \cup {RemoteOf([i \in 1..MaxTar |-> i], NoTime, <<>>, v) : v \in Variants}

(***************************************************************************)
(* The OCI operations as steps.                                            *)
(***************************************************************************)
InitOci ==
    /\ OciIdle
    /\ nssPc = "idle"
    /\ nssCall = NoCall
    /\ nssRet = NoCall
    /\ etcFiles = NoEtc
    /\ etcWrote = {}
    /\ CopyIdle
    /\ RestIdle

\* WriteOciTarGz(image, outName) unless the image could not be made
Written(op, r) ==
    /\ ociRet' = [op |-> op, err |-> r.err, tag |-> ""]
    /\ IF r.err # "" THEN UNCHANGED <<tarfile, image>>
       ELSE /\ \E start \in 1..Len(Keys(FileData(r.image), 1, <<>>)) :
                 tarfile' = [exists |-> TRUE, entries |-> WriteOciTar(r.image, start)]
            /\ image' = [r.image EXCEPT !.Config = ConfigOf(r.image)]

\* buildContainer packing the image: WriteOciFromBuild(pkg, buildDir, outpath,
\* metadata, extraBlobs) on a rootfs t
DoBuild ==
    /\ ociOps < MaxOps
    /\ \E def \in Defs, t \in Tars, md \in Metadatas, packages \in BOOLEAN :
         Written("build", BuiltImage(imageFromBuild(def, tarfile, t), md,
                                     BlobsOf(def, packages)))
    /\ ociOps' = ociOps + 1
    /\ UNCHANGED <<remote, loaded>>
    /\ UNCHANGED nssVars
    /\ UNCHANGED copyVars
    /\ UNCHANGED restVars

\* downloadContainer(outName, remote, insecure) on a repository rem
DoDownload ==
    /\ ociOps < MaxOps
    /\ \E rem \in Remotes, now \in Times :
         /\ remote' = rem
         /\ Written("download", DownloadedImage(ImageFromRepo(rem), Metadata(now, "")))
    /\ ociOps' = ociOps + 1
    /\ UNCHANGED loaded
    /\ UNCHANGED nssVars
    /\ UNCHANGED copyVars
    /\ UNCHANGED restVars

\* imageFromFile(path[:tag]) as uploadContainer and buildOci call it
Read(r, tag) ==
    /\ ociRet' = [op |-> "read", err |-> r.err, tag |-> tag]
    /\ loaded' = r.image

DoRead ==
    /\ ociOps < MaxOps
    /\ \E tag \in Tags : Read(imageFromFile(tarfile, tag), tag)
    /\ ociOps' = ociOps + 1
    /\ UNCHANGED <<tarfile, remote, image>>
    /\ UNCHANGED nssVars
    /\ UNCHANGED copyVars
    /\ UNCHANGED restVars

NextOci == DoBuild \/ DoDownload \/ DoRead

SpecOci == InitOci /\ [][NextOci]_vars

(***************************************************************************)
(* Claims about the NSS populator, checked under SpecNss.                  *)
(***************************************************************************)
\* the default tables as the documentation gives them: name, id
UserTable == {<<sRoot, 0>>, <<sDaemon, 1>>, <<sBin, 2>>, <<sSys, 3>>}

GroupTable == UserTable \cup {<<sAdm, 4>>, <<sTty, 5>>}

IsNumeral(h) == h # <<>> /\ \A i \in 1..Len(h) : IsDigit(h[i])

IsName(h) == h # <<>> /\ ~IsNumeral(h)

\* what a half of the user string stands for, by the three cases of the claim
ExpectedId(table, h) ==
    IF IsNumeral(h) THEN DigitsVal(h)
    ELSE IF \E e \in table : e[1] = h THEN (CHOOSE e \in table : e[1] = h)[2]
    ELSE 10

ExpectedName(table, h) ==
    IF IsName(h) THEN h
    ELSE IF \E e \in table : IsNumeral(h) /\ e[2] = DigitsVal(h)
         THEN (CHOOSE e \in table : e[2] = DigitsVal(h))[1]
    ELSE sSmith

ParseUserDone == nssPc = "done" /\ nssCall.op = "ParseUser"

PopulateNssDone == nssPc = "done" /\ nssCall.op = "PopulateNss"

\* C9: ParseUser("u[:g]") returns for each half its number and the default
\* table's name for it (or "smith"), or its name and the default table's id for
\* it (or 10), or 10 and "smith" for an empty half; the nss flag is true iff a
\* half is a non-empty non-numeric name, in the default table or not.
C9_ParseUserHalves ==
    ParseUserDone =>
        /\ nssRet.uid = ExpectedId(UserTable, nssCall.halves[1])
        /\ nssRet.u = ExpectedName(UserTable, nssCall.halves[1])
        /\ nssRet.gid = ExpectedId(GroupTable, nssCall.halves[2])
        /\ nssRet.g = ExpectedName(GroupTable, nssCall.halves[2])
        /\ nssRet.nss = (IsName(nssCall.halves[1]) \/ IsName(nssCall.halves[2]))

\* ParseUser("root:1000") has returned (0, 1000, "root", "smith", true): a name
\* of the default table raises the flag
C9_Witness ==
    /\ ParseUserDone
    /\ nssCall.user = sRoot \o <<Colon>> \o Itoa(1000)
    /\ nssRet = [uid |-> 0, gid |-> 1000, u |-> sRoot, g |-> sSmith, nss |-> TRUE]

\* whether the user string names its user or its group
ByName == IsName(nssCall.halves[1]) \/ IsName(nssCall.halves[2])

CallUid == ExpectedId(UserTable, nssCall.halves[1])

CallGid == ExpectedId(GroupTable, nssCall.halves[2])

CallUser == ExpectedName(UserTable, nssCall.halves[1])

\* the row name:x:uid:gid:name:/write
PasswdRow(name, uid, gid) == Join(<<name, sX, Itoa(uid), Itoa(gid), name, sWrite>>, Colon)

\* C11: the passwd file PopulateNss emits is the four default user rows
\* followed, exactly when the parsed uid is at least 4, by the one row
\* name:x:uid:gid:name:/write of the parsed uid and the parsed primary gid.
C11_PasswdRow ==
    (PopulateNssDone /\ "passwd" \in etcWrote) =>
        etcFiles["passwd"]
            = defaultUsers \o (IF CallUid >= 4
                               THEN <<PasswdRow(CallUser, CallUid, CallGid)>> ELSE <<>>)

\* the requested groups whose names the default table lacks, in order
ExtraNames == SelectSeq(nssCall.groups, LAMBDA g : \A e \in GroupTable : e[1] # g)

GroupRow(name, gid, member) == Join(<<name, sX, Itoa(gid), member>>, Colon)

GroupLines == {etcFiles["group"][i] : i \in 1..Len(etcFiles["group"])}

\* C12: the group file PopulateNss emits holds the six default group rows and,
\* for every primary gid, one row for every requested extra group whose name
\* is not a default group's: the k-th has the gid primary gid + k and the
\* primary user as its member.
C12_GroupRows ==
    (PopulateNssDone /\ "group" \in etcWrote) =>
        /\ SubSeq(etcFiles["group"], 1, 6) = defaultGroups
        /\ \A k \in 1..Len(ExtraNames) :
              GroupRow(ExtraNames[k], CallGid + k, CallUser) \in GroupLines

(***************************************************************************)
(* Claims about OCI archives, checked under SpecOci.  The archive on disk  *)
(* is always the one WriteOciTar wrote for image.                          *)
(***************************************************************************)
\* the documents of the archive, found as a reader finds them
ArchIndex == extractFile(tarfile, FileName("index.json")).data

ArchLatest == ArchIndex.manifests[Len(ArchIndex.manifests)]

ArchManifest == extractFile(tarfile, BlobName(ArchLatest.Digest)).data

ArchConfig == extractFile(tarfile, BlobName(ArchManifest.config.Digest)).data

\* the digests the manifest and the index of the archive refer to
ArchDigests ==
    {ArchIndex.manifests[i].Digest : i \in 1..Len(ArchIndex.manifests)}
    \cup {ArchManifest.config.Digest}
    \cup {ArchManifest.layers[i].Digest : i \in 1..Len(ArchManifest.layers)}

\* dg names a file blobs/sha256/<hex> of the archive whose bytes have that sha256
StoredUnderSha256(dg) ==
    /\ dg.alg = "sha256"
    /\ \E i \in 1..Len(tarfile.entries) :
         /\ tarfile.entries[i].type = "file"
         /\ tarfile.entries[i].name = BlobName(dg)
         /\ digest(Bytes(tarfile.entries[i].data)) = dg

ReadLatestDone == ociRet.op = "read" /\ ociRet.tag = "latest" /\ tarfile.exists

\* C3 as stated: reading back the archive written for an image I succeeds and
\* yields an image equal to I in its config, in its ordered layers compared by
\* diff ID, and in its additional blobs.
C3_RoundTrip ==
    ReadLatestDone =>
        /\ ociRet.err = ""
        /\ loaded.Config = image.Config
        /\ DiffIDsOf(loaded.Layers) = DiffIDsOf(image.Layers)
        /\ loaded.AdditionalBlobs = image.AdditionalBlobs

\* the config a reader returns for the written config c: Created, when c has
\* none, is the build time of the metadata to the second
ConfigReadBack(c, md) ==
    [c EXCEPT !.Created = IF c.Created.set THEN c.Created ELSE Time(md.BuildTime.sec, 0)]

\* C3 amended: reading back the archive written for an image I succeeds and
\* yields an image with the ordered layers of I compared by diff ID, with the
\* config of I except that a Created that I lacks is filled with the build time
\* of the index annotation, and with no additional blobs.
C3_RoundTripLayers ==
    ReadLatestDone =>
        /\ ociRet.err = ""
        /\ loaded.Config = ConfigReadBack(image.Config, image.Metadata)
        /\ DiffIDsOf(loaded.Layers) = DiffIDsOf(image.Layers)
        /\ loaded.AdditionalBlobs = <<>>

\* an image of two layers and two additional blobs, built on a parent, was
\* written and read back
C3_Witness ==
    /\ ReadLatestDone
    /\ ociRet.err = ""
    /\ Len(image.Layers) = 2
    /\ Len(image.AdditionalBlobs) = 2
    /\ ~image.Config.Created.set
    /\ Len(loaded.Layers) = 2

\* C4: in every archive written, each digest the manifest (config and layers)
\* or index.json refers to names a file blobs/sha256/<hex> of the archive whose
\* stored bytes have exactly that sha256, whether the image was built or loaded.
C4_ContentAddressed ==
    tarfile.exists => \A dg \in ArchDigests : StoredUnderSha256(dg)

\* C5: in every archive written the config has as many diff IDs as the manifest
\* has layer descriptors, the i-th of each from the i-th layer of the image; an
\* image a reader returns pairs the i-th descriptor of the manifest with the
\* i-th diff ID of the config; reading a repository whose counts differ ends in
\* the error and writes nothing.
C5_Cardinality ==
    /\ tarfile.exists =>
         /\ Len(ArchConfig.diffIDs) = Len(ArchManifest.layers)
         /\ Len(image.Layers) = Len(ArchManifest.layers)
         /\ \A i \in 1..Len(image.Layers) :
              /\ ArchConfig.diffIDs[i] = image.Layers[i].DiffID
              /\ ArchManifest.layers[i].Digest = image.Layers[i].Desc.Digest
    /\ (ReadLatestDone /\ ociRet.err = "") =>
         /\ Len(loaded.Layers) = Len(loaded.Config.DiffIDs)
         /\ \A i \in 1..Len(loaded.Layers) :
              /\ loaded.Layers[i].Desc = ArchManifest.layers[i]
              /\ loaded.Layers[i].DiffID = ArchConfig.diffIDs[i]
    /\ (ociRet.op = "download"
        /\ remote \in {RemoteOf(tars, NoTime, <<>>, "count") : tars \in TarLists \ {<<>>}}) =>
         ociRet.err = "number of layers and number of diffIDs don't match"

\* an archive of two different layers was written and read back
C5_Witness ==
    /\ ReadLatestDone
    /\ ociRet.err = ""
    /\ Len(loaded.Layers) = 2
    /\ loaded.Layers[1].DiffID # loaded.Layers[2].DiffID
    /\ loaded.Layers[1].Desc.Digest # loaded.Layers[2].Desc.Digest

HexBefore(a, b) ==
    \E k \in 1..(Len(a) + 1) :
        /\ \A i \in 1..(k - 1) : i <= Len(b) /\ a[i] = b[i]
        /\ k <= Len(b)
        /\ (k <= Len(a) => a[k] < b[k])

NameBefore(a, b) ==
    \/ a.dir[2] = "sha256" /\ b.dir[2] = "sha512"
    \/ a.dir[2] = b.dir[2] /\ HexBefore(a.hex, b.hex)

\* the entries of the archive between the blobs directory and oci-layout
BlobEntries == 2..(Len(tarfile.entries) - 2)

\* C7: the entries of an archive are the blobs directory, then the blob files
\* in ascending order of name, each blob subdirectory once and before the files
\* beneath it, then oci-layout, then index.json; they are the same whatever
\* order the range over the file map takes.
C7_EntryOrder ==
    tarfile.exists =>
        /\ Len(tarfile.entries) >= 5
        /\ tarfile.entries[1] = DirEntry(FileName("blobs"))
        /\ tarfile.entries[Len(tarfile.entries) - 1].name = FileName("oci-layout")
        /\ tarfile.entries[Len(tarfile.entries)].name = FileName("index.json")
        /\ \A i \in BlobEntries :
             \/ /\ tarfile.entries[i].type = "dir"
                /\ tarfile.entries[i].name.dir = <<"blobs">>
                /\ \A j \in BlobEntries : tarfile.entries[j] = tarfile.entries[i] => j = i
             \/ /\ tarfile.entries[i].type = "file"
                /\ Len(tarfile.entries[i].name.dir) = 2
                /\ \E j \in 1..(i - 1) : tarfile.entries[j] = DirEntry(Dir(tarfile.entries[i].name))
                /\ \A j \in BlobEntries :
                     (j < i /\ tarfile.entries[j].type = "file")
                        => NameBefore(tarfile.entries[j].name, tarfile.entries[i].name)
        /\ \A start \in 1..Len(Keys(FileData(image), 1, <<>>)) :
             WriteOciTar(image, start) = tarfile.entries

\* an archive with blobs under two subdirectories was written
C7_Witness ==
    /\ tarfile.exists
    /\ \E i, j \in BlobEntries :
         /\ tarfile.entries[i] = DirEntry(Dir(BlobName(digest(<<>>))))
         /\ tarfile.entries[j] = DirEntry(Dir(BlobName(digest512(<<>>))))
         /\ j > i + 2
         /\ Len(tarfile.entries) > j + 3

\* C8: the last entry of the index of every archive written is the manifest's
\* descriptor annotated ref.name = latest, and the only entry so annotated, so
\* imageFromFile with the default tag locates the manifest in the archive.
C8_LatestEntry ==
    tarfile.exists =>
        /\ ArchLatest.Annotations.refName = "latest"
        /\ ArchLatest.MediaType = manifestMT
        /\ \A i \in 1..(Len(ArchIndex.manifests) - 1) :
             ArchIndex.manifests[i].Annotations.refName # "latest"
        /\ Locate(ArchIndex.manifests, "latest", NoDescriptor) = ArchLatest
        /\ extractFile(tarfile, BlobName(ArchLatest.Digest)).ok
        /\ ArchManifest.kind = "manifest"
        /\ ReadLatestDone => ociRet.err # "unable to locate image in index"

\* an index of two additional blobs and the manifest was written, and read
C8_Witness ==
    /\ ReadLatestDone
    /\ ociRet.err = ""
    /\ Len(ArchIndex.manifests) = 3
    /\ ArchIndex.manifests[1].MediaType = specMT
    /\ ArchIndex.manifests[2].MediaType = packagesMT

(***************************************************************************)
(* Paths and the file system under CopyTree (copy.go, symlink.go).  A path *)
(* string is the sequence of its elements between separators: "/a/b" is    *)
(* <<"", "a", "b">>, "a/b" is <<"a", "b">>, "/" is <<"">> and "" is <<>>.  *)
(* The file system maps a location, the elements from the root, to a node. *)
(***************************************************************************)
MaxOsLinks == 6

maxIter == 255

\* filepath.IsAbs(p)
IsAbs(p) == p # <<>> /\ p[1] = ""

RECURSIVE CleanFrom(_, _, _)
CleanFrom(elems, abs, acc) ==
    IF elems = <<>> THEN acc
    ELSE IF Head(elems) \in {"", "."} THEN CleanFrom(Tail(elems), abs, acc)
    ELSE IF Head(elems) # ".." THEN CleanFrom(Tail(elems), abs, Append(acc, Head(elems)))
    ELSE IF acc # <<>> /\ acc[Len(acc)] # ".."
    THEN CleanFrom(Tail(elems), abs, SubSeq(acc, 1, Len(acc) - 1))
    ELSE IF abs THEN CleanFrom(Tail(elems), abs, acc)
    ELSE CleanFrom(Tail(elems), abs, Append(acc, ".."))

OrDot(elems) == IF elems = <<>> THEN <<".">> ELSE elems

\* filepath.Clean(p)
Clean(p) ==
    IF IsAbs(p) THEN <<"">> \o CleanFrom(p, TRUE, <<>>) ELSE OrDot(CleanFrom(p, FALSE, <<>>))

\* filepath.Join(a, b)
PathJoin(a, b) == Clean(a \o b)

\* filepath.Dir(p)
PathDir(p) == Clean(SubSeq(p, 1, Len(p) - 1))

\* strings.TrimPrefix(p, prefix) for a prefix ending at a separator of p
TrimPrefix(p, prefix) ==
    IF prefix = <<>> \/ Len(p) < Len(prefix) \/ SubSeq(p, 1, Len(prefix)) # prefix THEN p
    ELSE IF Len(p) = Len(prefix) THEN <<>>
    ELSE <<"">> \o SubSeq(p, Len(prefix) + 1, Len(p))

\* the base directory of the call, which is its working directory and, with
\* chroot, its chroot; and the output directory
baseDir == <<"", "c">>

outputDir == <<"", "o">>

Cwd == <<"c">>

Parent(loc) == IF loc = <<>> THEN loc ELSE SubSeq(loc, 1, Len(loc) - 1)

\* the kernel resolving the elements rest from the directory at dir: the
\* location found, or the error and the location that is missing
RECURSIVE OsWalk(_, _, _, _, _)
OsEntry(f, dir, rest, followLast, fuel, loc) ==
    IF loc \notin DOMAIN f
    THEN [err |-> "ENOENT", loc |-> loc, last |-> Tail(rest) = <<>>]
    ELSE IF f[loc].type = "link" /\ (Tail(rest) # <<>> \/ followLast)
    THEN (IF fuel = 0 THEN [err |-> "ELOOP", loc |-> loc, last |-> FALSE]
          ELSE OsWalk(f, IF IsAbs(f[loc].text) THEN <<>> ELSE dir,
                      f[loc].text \o Tail(rest), followLast, fuel - 1))
    ELSE IF Tail(rest) # <<>> /\ f[loc].type # "dir"
    THEN [err |-> "ENOTDIR", loc |-> loc, last |-> FALSE]
    ELSE OsWalk(f, loc, Tail(rest), followLast, fuel)

OsWalk(f, dir, rest, followLast, fuel) ==
    IF rest = <<>> THEN [err |-> "", loc |-> dir, last |-> TRUE]
    ELSE IF Head(rest) \in {"", "."} THEN OsWalk(f, dir, Tail(rest), followLast, fuel)
    ELSE IF Head(rest) = ".." THEN OsWalk(f, Parent(dir), Tail(rest), followLast, fuel)
    ELSE OsEntry(f, dir, rest, followLast, fuel, Append(dir, Head(rest)))

\* os.Lstat(p) and os.Stat(p)
Lstat(f, p) == OsWalk(f, IF IsAbs(p) THEN <<>> ELSE Cwd, p, FALSE, MaxOsLinks)

Stat(f, p) == OsWalk(f, IF IsAbs(p) THEN <<>> ELSE Cwd, p, TRUE, MaxOsLinks)

\* what debug/elf reads of a file: whether it is an ELF, its DT_NEEDED names,
\* its DT_RUNPATH and its .interp section
NoElf == [is |-> FALSE, needs |-> <<>>, runpath |-> <<>>, interp |-> <<>>]

Elf(needs, runpath, interp) == [is |-> TRUE, needs |-> needs, runpath |-> runpath, interp |-> interp]

DirNode == [type |-> "dir", ino |-> <<>>, mode |-> "0755", text |-> <<>>, elf |-> NoElf]

LinkNode(text) == [type |-> "link", ino |-> <<>>, mode |-> "0777", text |-> text, elf |-> NoElf]

FileNode(ino, mode, elf) == [type |-> "file", ino |-> ino, mode |-> mode, text |-> <<>>, elf |-> elf]

\* the file system with node at loc
Put(f, loc, node) == [l \in DOMAIN f \cup {loc} |-> IF l = loc THEN node ELSE f[l]]

\* the entry p names once its directory is resolved: error, location
EntryOf(par, p) ==
    IF par.err # "" THEN [err |-> par.err, loc |-> <<>>]
    ELSE [err |-> "", loc |-> Append(par.loc, p[Len(p)])]

Entry(f, p) == EntryOf(Stat(f, SubSeq(p, 1, Len(p) - 1)), p)

\* os.Mkdir(p) and os.Symlink(text, p), p a clean path that is not the root
Create(f, e, node) ==
    IF e.err # "" THEN [err |-> e.err, fs |-> f]
    ELSE IF e.loc \in DOMAIN f THEN [err |-> "EEXIST", fs |-> f]
    ELSE [err |-> "", fs |-> Put(f, e.loc, node)]

Mkdir(f, p) == Create(f, Entry(f, p), DirNode)

Symlink(f, text, p) == Create(f, Entry(f, p), LinkNode(text))

\* the end of os.MkdirAll(p): Mkdir, forgiven when a directory is there
MkdirEnd(f, p, r) ==
    IF r.err = "" THEN r
    ELSE IF Lstat(f, p).err = "" /\ f[Lstat(f, p).loc].type = "dir" THEN [err |-> "", fs |-> f]
    ELSE r

RECURSIVE MkdirAll(_, _)
MkdirIn(made, p) ==
    IF made.err # "" THEN made ELSE MkdirEnd(made.fs, p, Mkdir(made.fs, p))

\* os.MkdirAll(p, 0755)
MkdirAll(f, p) ==
    IF Stat(f, p).err = ""
    THEN [err |-> IF f[Stat(f, p).loc].type = "dir" THEN "" ELSE "ENOTDIR", fs |-> f]
    ELSE IF Len(p) <= 1 \/ (IsAbs(p) /\ Len(p) = 2) THEN MkdirIn([err |-> "", fs |-> f], p)
    ELSE MkdirIn(MkdirAll(f, SubSeq(p, 1, Len(p) - 1)), p)

\* an end of ensureSymlink that takes any symlink that is there
SymlinkEndAny(made, text, p) ==
    IF made.err # "EEXIST" THEN made
    ELSE IF Lstat(made.fs, p).err # "" THEN [err |-> Lstat(made.fs, p).err, fs |-> made.fs]
    ELSE IF made.fs[Lstat(made.fs, p).loc].type # "link" THEN made
    ELSE [err |-> "", fs |-> made.fs]

\* the end of ensureSymlink: the error of os.Symlink stands unless a symlink
\* of the same text is there
SymlinkEnd(made, text, p) ==
    IF made.err # "EEXIST" THEN made
    ELSE IF Lstat(made.fs, p).err # "" THEN [err |-> Lstat(made.fs, p).err, fs |-> made.fs]
    ELSE IF made.fs[Lstat(made.fs, p).loc].type # "link" THEN made
    ELSE IF made.fs[Lstat(made.fs, p).loc].text # text THEN made
    ELSE [err |-> "", fs |-> made.fs]

SymlinkIn(dirs, text, p) ==
    IF dirs.err # "" THEN dirs ELSE SymlinkEnd(Symlink(dirs.fs, text, p), text, p)

\* ensureSymlink(dest, source): the symlink source with the text dest
ensureSymlink(f, dest, source) == SymlinkIn(MkdirAll(f, PathDir(source)), dest, source)

\* os.Link(src, dst): a second name for the file, or an error
Link(f, src, dst) ==
    IF Lstat(f, src).err # "" THEN [err |-> Lstat(f, src).err, fs |-> f]
    ELSE IF f[Lstat(f, src).loc].type = "dir" THEN [err |-> "EPERM", fs |-> f]
    ELSE Create(f, Entry(f, dst), f[Lstat(f, src).loc])

\* the file written through an open of dst with O_CREATE|O_TRUNC: a file made
\* with mode 0644, or the file that is there, every name of it, rewritten
WriteAt(f, d, elf) ==
    IF d.err = "ENOENT" /\ d.last
    THEN [err |-> "", fs |-> Put(f, d.loc, FileNode(d.loc, "0644", elf))]
    ELSE IF d.err # "" THEN [err |-> d.err, fs |-> f]
    ELSE IF f[d.loc].type # "file" THEN [err |-> "EISDIR", fs |-> f]
    ELSE [err |-> "",
          fs |-> [l \in DOMAIN f |->
                    IF f[l].type = "file" /\ f[l].ino = f[d.loc].ino
                    THEN [f[l] EXCEPT !.elf = elf] ELSE f[l]]]

\* the copy Copy falls back to
CopyData(f, s, dst) ==
    IF s.err # "" THEN [err |-> s.err, fs |-> f]
    ELSE IF f[s.loc].type # "file" THEN [err |-> "EISDIR", fs |-> f]
    ELSE WriteAt(f, Stat(f, dst), f[s.loc].elf)

CopyAfterLink(f, linked, src, dst) ==
    IF linked.err = "" THEN linked ELSE CopyData(f, Stat(f, src), dst)

\* Copy(src, dst): a hard link, else a copy
Copy(f, src, dst) == CopyAfterLink(f, Link(f, src, dst), src, dst)

\* os.Chmod(p, 0755), whose error copier drops: the mode of the file, under
\* every name of it
ChmodAt(f, st) ==
    IF st.err # "" THEN f
    ELSE [l \in DOMAIN f |->
            IF f[l].type = f[st.loc].type /\ f[l].ino = f[st.loc].ino /\ (f[l].type = "file" \/ l = st.loc)
            THEN [f[l] EXCEPT !.mode = "0755"] ELSE f[l]]

Chmod(f, p) == ChmodAt(f, Stat(f, p))

\* info.Mode()&0100 != 0
UserExec(mode) == mode \in {"0755", "0700", "0555"}

(***************************************************************************)
(* walkAndCopySymlinks (symlink.go).  The buffer b is kept as the elements *)
(* written to it; s carries the variables of the loop, the file system and *)
(* the symlinks traversed.                                                 *)
(***************************************************************************)
\* the record of a symlink traversed: its path, its location and its text
Traversed(f, current) ==
    [path |-> current, loc |-> Lstat(f, current).loc, text |-> f[Lstat(f, current).loc].text]

\* the loop is over, with the error err or with none
WalkOver(s, err) == [s EXCEPT !.over = TRUE, !.err = err]

\* the symlink at current, whose text is in s.fs, was read and made in the
\* output: its text is put at the front of the path
WalkLink(cfg, s, current, made) ==
    IF made.err # ""
    THEN [s EXCEPT !.over = TRUE, !.err = made.err, !.fs = made.fs,
                   !.traversed = @ \cup {Traversed(s.fs, current)}]
    ELSE [s EXCEPT !.fs = made.fs,
                   !.traversed = @ \cup {Traversed(s.fs, current)},
                   !.b = IF ~IsAbs(s.fs[Lstat(s.fs, current).loc].text) THEN @
                         ELSE IF cfg.chrootDir = <<>> THEN <<"">> ELSE cfg.chrootDir,
                   !.path = s.fs[Lstat(s.fs, current).loc].text \o Tail(@),
                   !.n = @ + 1]

\* the element Head(s.path), not empty, of the loop
WalkElement(cfg, s, current, fi) ==
    IF fi.err # "" THEN WalkOver(s, fi.err)
    ELSE IF s.fs[fi.loc].type # "link"
    THEN [s EXCEPT !.b = current, !.path = Tail(@), !.n = @ + 1]
    ELSE WalkLink(cfg, s, current,
                  ensureSymlink(s.fs, s.fs[fi.loc].text,
                                PathJoin(outputDir, TrimPrefix(current, cfg.chrootDir))))

\* one pass of the loop for n := 0; path != ""; n++, s its variables: the
\* path still to consume, the buffer b, n, and the file system; a pass
\* that finds path empty or n above maxIter ends the loop
WalkPass(cfg, s) ==
    IF s.path = <<>> THEN WalkOver(s, "")
    ELSE IF s.n > maxIter THEN WalkOver(s, "too many links")
    ELSE IF Head(s.path) = ""
    THEN [s EXCEPT !.b = IF @ = <<>> THEN <<"">> ELSE @, !.path = Tail(@), !.n = @ + 1]
    ELSE WalkElement(cfg, s, s.b \o <<Head(s.path)>>, Lstat(s.fs, s.b \o <<Head(s.path)>>))

\* the variables of the loop as walkAndCopySymlinks(chrootDir, outputDir,
\* path) begins
walkAndCopySymlinks(path) ==
    [on |-> TRUE, over |-> FALSE, err |-> "", path |-> path, b |-> <<>>, n |-> 0,
     traversed |-> {}]

\* the variables of the loop together with the file system it works on
LoopOf(r, f) ==
    [on |-> r.on, over |-> r.over, err |-> r.err, path |-> r.path, b |-> r.b, n |-> r.n,
     traversed |-> r.traversed, fs |-> f]

ResolverOf(s) ==
    [on |-> s.on, over |-> s.over, err |-> s.err, path |-> s.path, b |-> s.b, n |-> s.n,
     traversed |-> s.traversed]

\* the next pass of the loop of the call in progress, or the first pass of
\* the call for path
WalkSymlinks(cfg, r, f, path) ==
    WalkPass(cfg, LoopOf(IF r.on THEN r ELSE walkAndCopySymlinks(path), f))

\* return filepath.Clean(b.String()), nil, or "" and the error
WalkReturn(r, f) ==
    [err |-> r.err, path |-> IF r.err = "" THEN Clean(r.b) ELSE <<>>, fs |-> f,
     traversed |-> r.traversed]

(***************************************************************************)
(* FindLibrary and Deps (manifest.go).                                     *)
(***************************************************************************)
\* the first of the directories paths under which library is, as FindLibrary
\* returns it, or "" when it is under none
RECURSIVE FirstUnder(_, _, _, _)
FirstUnder(cfg, f, library, paths) ==
    IF paths = <<>> THEN <<>>
    ELSE IF Lstat(f, PathJoin(cfg.chrootDir, PathJoin(Head(paths), <<library>>))).err = ""
    THEN PathJoin(Head(paths), <<library>>)
    ELSE FirstUnder(cfg, f, library, Tail(paths))

DefaultLibs == <<<<"", "lib">>, <<"", "usr", "lib">>, <<"", "usr", "local", "lib">>>>

\* FindLibrary(library, chrootDir, paths)
FindLibrary(cfg, f, library, paths) ==
    IF FirstUnder(cfg, f, library, paths) # <<>> THEN FirstUnder(cfg, f, library, paths)
    ELSE IF library \in DOMAIN cfg.soMap /\ cfg.soMap[library] # <<>> THEN cfg.soMap[library]
    ELSE FirstUnder(cfg, f, library, DefaultLibs)

\* strings.Replace(runpath, "$ORIGIN", origin, -1) on a run path of one directory
FixOrigin(runpath, origin) ==
    IF runpath # <<>> /\ runpath[1] = "$ORIGIN" THEN origin \o Tail(runpath) ELSE runpath

\* preloadPaths and then the run path of the ELF at path
SearchPaths(cfg, elf, path) ==
    cfg.preload
    \o (IF elf.runpath = <<>> THEN <<>>
        ELSE <<FixOrigin(elf.runpath, PathDir(TrimPrefix(path, cfg.chrootDir)))>>)

NssLibs == {"libnss_dns.so.2", "libnss_files.so.2", "libnss_compat.so.2"}

\* the libraries Deps looks for: with nss the three NSS ones, and the needed
Wanted(cfg, elf) ==
    (IF cfg.nss THEN NssLibs ELSE {}) \cup {elf.needs[i] : i \in 1..Len(elf.needs)}

\* Deps of an ELF with DT_NEEDED entries: the result, and the names warned of
DepsOfElf(cfg, f, elf, paths) ==
    [deps |-> ({FindLibrary(cfg, f, lib, paths) : lib \in Wanted(cfg, elf)} \ {<<>>})
              \cup (IF elf.interp = <<>> THEN {} ELSE {elf.interp}),
     warned |-> {elf.needs[i] : i \in 1..Len(elf.needs)}
                \cap {lib \in Wanted(cfg, elf) : FindLibrary(cfg, f, lib, paths) = <<>>},
     nss |-> IF cfg.nss THEN {FindLibrary(cfg, f, lib, paths) : lib \in NssLibs} \ {<<>>}
             ELSE {}]

NoDeps == [deps |-> {}, warned |-> {}, nss |-> {}]

DepsOfFile(cfg, f, st, path) ==
    IF st.err # "" \/ f[st.loc].type # "file" THEN NoDeps
    ELSE IF ~f[st.loc].elf.is \/ f[st.loc].elf.needs = <<>> THEN NoDeps
    ELSE DepsOfElf(cfg, f, f[st.loc].elf, SearchPaths(cfg, f[st.loc].elf, path))

\* Deps(chrootDir, path, nss)
Deps(cfg, f, path) == DepsOfFile(cfg, f, Stat(f, path), path)

(***************************************************************************)
(* copier (copy.go): one call of the walk function on path.  Its result is *)
(* the error it returns, the file system it leaves, the symlinks its       *)
(* resolver traversed, the file it copied, the libraries it warned of and  *)
(* the dependencies it walks.                                              *)
(***************************************************************************)
Res(err, f, traversed, copied, warned, deps) ==
    [err |-> err, fs |-> f, traversed |-> traversed, copied |-> copied,
     warned |-> warned, deps |-> deps]

\* os.RemoveAll(p): the entry and all beneath it
RemoveAt(f, st) ==
    IF st.err # "" THEN f
    ELSE [l \in {m \in DOMAIN f : Len(m) < Len(st.loc) \/ SubSeq(m, 1, Len(st.loc)) # st.loc}
            |-> f[l]]

RemoveAll(f, p) == RemoveAt(f, Lstat(f, p))

\* filepath.Abs(p)
Abs(p) == IF IsAbs(p) THEN Clean(p) ELSE PathJoin(<<"">> \o Cwd, p)

\* the path copier walks for the dependency dep of the file at path
DepPath(cfg, path, dep) ==
    IF IsAbs(dep) THEN PathJoin(cfg.chrootDir, dep) ELSE Abs(PathJoin(PathDir(path), dep))

\* the record of a file copied: its location, where it went, its exec bit,
\* what Deps returned for it and the NSS libraries in that, and the walk
\* that came to it, of a path of the globs or of a dependency
Copied(f, info, outpath, d) ==
    [src |-> info.loc, out |-> outpath, exec |-> UserExec(f[info.loc].mode),
     deps |-> d.deps, nss |-> d.nss, walk |-> ""]

\* an executable was copied: chmod, and with follow its dependencies
CopierDeps(cfg, f, trav, path, info, outpath, d) ==
    Res("", Chmod(f, outpath), trav, {Copied(f, info, outpath, d)},
        {<<need, TrimPrefix(path, cfg.chrootDir)>> : need \in d.warned},
        {DepPath(cfg, path, dep) : dep \in d.deps})

CopierCopied(cfg, f, c, trav, path, info, outpath) ==
    IF c.err # "" THEN Res(c.err, c.fs, trav, {}, {}, {})
    ELSE IF ~UserExec(f[info.loc].mode)
    THEN Res("", c.fs, trav, {Copied(f, info, outpath, NoDeps)}, {}, {})
    ELSE CopierDeps(cfg, c.fs, trav, path, info, outpath,
                    IF cfg.follow THEN Deps(cfg, c.fs, path) ELSE NoDeps)

CopierLinked(made, trav) == Res(made.err, made.fs, trav, {}, {}, {})

\* the directories of outpath were made
CopierMade(cfg, made, trav, path, info, outpath) ==
    IF made.err # "" THEN Res(made.err, made.fs, trav, {}, {}, {})
    ELSE IF made.fs[info.loc].type = "dir" THEN Res("", made.fs, trav, {}, {}, {})
    ELSE IF made.fs[info.loc].type = "link"
    THEN CopierLinked(ensureSymlink(made.fs, made.fs[info.loc].text, outpath), trav)
    ELSE CopierCopied(cfg, made.fs, Copy(made.fs, path, outpath), trav, path, info, outpath)

CopierMake(cfg, f, trav, path, info, outpath) ==
    CopierMade(cfg,
               MkdirAll(f, IF f[info.loc].type = "dir" THEN outpath ELSE PathDir(outpath)),
               trav, path, info, outpath)

\* a copier that keeps every entry that is there, without follow as with
CopierOutKeep(cfg, f, trav, path, info, outpath) ==
    IF Stat(f, outpath).err # "" THEN CopierMake(cfg, f, trav, path, info, outpath)
    ELSE Res("", f, trav, {}, {}, {})

\* a copier that keeps only a directory that is there, and copies a file
\* again with follow as without
CopierOutAgain(cfg, f, trav, path, info, outpath) ==
    IF Stat(f, outpath).err # "" THEN CopierMake(cfg, f, trav, path, info, outpath)
    ELSE IF f[info.loc].type = "dir" THEN Res("", f, trav, {}, {}, {})
    ELSE CopierMake(cfg, RemoveAll(f, outpath), trav, path, info, outpath)

\* copier from outpath on: an entry that is there is kept with follow and for
\* a directory, and is removed otherwise
CopierOut(cfg, f, trav, path, info, outpath) ==
    IF Stat(f, outpath).err # "" THEN CopierMake(cfg, f, trav, path, info, outpath)
    ELSE IF cfg.follow \/ f[info.loc].type = "dir" THEN Res("", f, trav, {}, {}, {})
    ELSE CopierMake(cfg, RemoveAll(f, outpath), trav, path, info, outpath)

CopierAt(cfg, f, trav, path, rel, info) ==
    IF info.err # "" THEN Res(info.err, f, trav, {}, {}, {})
    ELSE CopierOut(cfg, f, trav, path, info, PathJoin(outputDir, rel))

\* copier after walkAndCopySymlinks returned w
CopierWalked(cfg, path, w) ==
    IF w.err = "ENOENT" THEN Res("", w.fs, w.traversed, {}, {}, {})
    ELSE IF w.err # "" THEN Res(w.err, w.fs, w.traversed, {}, {}, {})
    ELSE IF w.path = path
    THEN CopierAt(cfg, w.fs, w.traversed, path, TrimPrefix(path, cfg.chrootDir),
                  Lstat(w.fs, path))
    ELSE IF TrimPrefix(w.path, cfg.chrootDir) \in cfg.exs
    THEN Res("", w.fs, w.traversed, {}, {}, {})
    ELSE CopierAt(cfg, w.fs, w.traversed, w.path, TrimPrefix(w.path, cfg.chrootDir),
                  Lstat(w.fs, w.path))

CopierInfo(cfg, f, path, info, w) ==
    IF info.err # "" /\ (~cfg.follow \/ info.err # "ENOENT")
    THEN Res(info.err, f, {}, {}, {}, {})
    ELSE IF TrimPrefix(path, cfg.chrootDir) \in cfg.exs THEN Res("", f, {}, {}, {}, {})
    ELSE IF cfg.follow THEN CopierWalked(cfg, path, w)
    ELSE CopierAt(cfg, f, {}, path, TrimPrefix(path, cfg.chrootDir), info)

\* copier goes through walkAndCopySymlinks for path
Resolves(cfg, f, path) ==
    /\ cfg.follow
    /\ Lstat(f, path).err \in {"", "ENOENT"}
    /\ TrimPrefix(path, cfg.chrootDir) \notin cfg.exs

\* the walk function of copier(exs, chrootDir, outputDir, nss, follow) on
\* path, with the info filepath.Walk hands it and with what
\* walkAndCopySymlinks returned, r the variables its loop ended with
copier(cfg, f, path, r) == CopierInfo(cfg, f, path, Lstat(f, path), WalkReturn(r, f))

(***************************************************************************)
(* filepath.Walk and filepath.Glob over the model's names.                 *)
(***************************************************************************)
\* the names of the source trees, in the order sort.Strings gives them
NameOrder ==
    <<"a", "app", "b", "bin", "dev", "ld.so", "lib", "lib64", "liba.so", "libb.so",
      "libnss_files.so.2", "proc", "read", "run", "sh", "sys", "tool", "usr", "write">>

SortNames(names) == SelectSeq(NameOrder, LAMBDA n : n \in names)

\* readDirNames(path): the names in the directory at loc, sorted
readDirNames(f, loc) ==
    SortNames({l[Len(l)] : l \in {m \in DOMAIN f : Len(m) = Len(loc) + 1 /\ Parent(m) = loc}})

\* the paths filepath.Walk visits below path once the walk function returned
\* nil for it: the entries of a directory, none for anything else
Children(f, path, info) ==
    IF info.err # "" \/ f[info.loc].type # "dir" THEN <<>>
    ELSE [i \in 1..Len(readDirNames(f, info.loc)) |->
            PathJoin(path, <<readDirNames(f, info.loc)[i]>>)]

\* a glob of CopyTree, made relative: one literal path, or "*"
Relative(glob) == IF IsAbs(glob) THEN Tail(Clean(glob)) ELSE glob

\* filepath.Glob(glob) in the working directory
Glob(f, glob) ==
    IF glob = <<"*">>
    THEN [i \in 1..Len(readDirNames(f, Cwd)) |-> <<readDirNames(f, Cwd)[i]>>]
    ELSE IF Lstat(f, glob).err = "" THEN <<glob>> ELSE <<>>

RECURSIVE GlobAll(_, _)
GlobAll(f, globs) ==
    IF globs = <<>> THEN <<>>
    ELSE IF Head(globs) = <<>> THEN GlobAll(f, Tail(globs))
    ELSE Glob(f, Relative(Head(globs))) \o GlobAll(f, Tail(globs))

\* the set exs of CopyTree
ExsOf(f, excludes) == {GlobAll(f, excludes)[i] : i \in 1..Len(GlobAll(f, excludes))}

\* the globs CopyTree walks
GlobsOf(globs) == IF globs = <<>> THEN <<<<"*">>>> ELSE globs

(***************************************************************************)
(* The walks of CopyTree as a stack: at the bottom the paths of the globs  *)
(* still to walk, above it the walk in progress, and for each executable   *)
(* copied the dependencies still to walk and the walk of one of them.      *)
(***************************************************************************)
Frame(kind, root, todo, deps) == [kind |-> kind, root |-> root, todo |-> todo, deps |-> deps]

Top(st) == st[Len(st)]

Pop(st) == SubSeq(st, 1, Len(st) - 1)

\* the stack once the walks and dependency loops that are over have returned
RECURSIVE Settle(_)
Settle(st) ==
    IF st = <<>> THEN st
    ELSE IF Top(st).kind = "walk" /\ Top(st).todo = <<>> THEN Settle(Pop(st))
    ELSE IF Top(st).kind = "deps" /\ Top(st).deps = {} THEN Settle(Pop(st))
    ELSE st

\* the walk at the top goes on below path, after the dependencies deps
Descend(st, children, deps) ==
    Settle(Append(Append(Pop(st), [Top(st) EXCEPT !.todo = children \o Tail(Top(st).todo)]),
                  Frame("deps", "dep", <<>>, deps)))

\* the source of the file a call of copier copied, if it copied one
SrcsOf(copied) == IF copied = {} THEN <<>> ELSE <<(CHOOSE c \in copied : TRUE).src>>

Logged(log, r, root) ==
    [traversed |-> log.traversed \cup r.traversed,
     copied |-> log.copied \cup {[c EXCEPT !.walk = root] : c \in r.copied},
     warned |-> log.warned \cup r.warned,
     found |-> log.found \cup r.deps,
     order |-> log.order \o SrcsOf(r.copied),
     failed |-> log.failed \cup (IF r.err = "" THEN {} ELSE {<<root, r.err>>})]

(***************************************************************************)
(* The trees CopyTree is called on.  The source is an unpacked root with   *)
(* an executable /bin/app that needs liba.so and names a loader, both      *)
(* behind a symlink to /usr/lib64, where liba.so needs libb.so.  The       *)
(* output is what rootfsDir leaves, and both lie in a host file system.    *)
(***************************************************************************)
\* the file system holding the entries, each a location and a node
FsOf(entries) ==
    [l \in {e[1] : e \in entries} |-> (CHOOSE e \in entries : e[1] = l)[2]]

File(loc, mode, elf) == <<loc, FileNode(loc, mode, elf)>>

\* the directories rootfsDir makes in the output
RootfsDirs == {"dev", "read", "write", "run", "proc", "sys"}

OutputTree == {<<<<"o">>, DirNode>>} \cup {<<<<"o", d>>, DirNode>> : d \in RootfsDirs}

\* the host around the base directory: its own /lib64 -> usr/lib64 and loader
HostTree ==
    {<<<<>>, DirNode>>, <<<<"usr">>, DirNode>>, <<<<"usr", "lib64">>, DirNode>>,
     <<<<"lib64">>, LinkNode(<<"usr", "lib64">>)>>,
     File(<<"usr", "lib64", "ld.so">>, "0755", Elf(<<>>, <<>>, <<>>))}

LinkNames == {"lib64", "run"}

LinkTexts == {<<"usr", "lib64">>, <<"", "usr", "lib64">>, <<"..", "lib64">>}

LibModes == {"0755", "0644"}

SourceTree(link, text, mode, hasB) ==
    {<<<<"c">>, DirNode>>, <<<<"c", "bin">>, DirNode>>,
     <<<<"c", "usr">>, DirNode>>, <<<<"c", "usr", "lib64">>, DirNode>>,
     <<<<"c", link>>, LinkNode(text)>>,
     File(<<"c", "bin", "app">>, "0755", Elf(<<"liba.so">>, <<>>, <<"", link, "ld.so">>)),
     File(<<"c", "usr", "lib64", "ld.so">>, "0755", Elf(<<>>, <<>>, <<>>)),
     File(<<"c", "usr", "lib64", "liba.so">>, mode, Elf(<<"libb.so">>, <<>>, <<>>))}
    \cup (IF hasB THEN {File(<<"c", "usr", "lib64", "libb.so">>, "0755", Elf(<<>>, <<>>, <<>>))}
          ELSE {})

\* soMap as SetSoPaths leaves it after ldconfig listed the directory /link
SoMapOf(link, hasB) ==
    [lib \in {"ld.so", "liba.so"} \cup (IF hasB THEN {"libb.so"} ELSE {}) |-> <<"", link, lib>>]

GlobLists(link) ==
    {<<>>, <<<<"bin", "app">>>>, <<<<"", "bin", "app">>, <<link, "ld.so">>>>, <<<<"usr">>>>}

ExcludeLists == {<<>>, <<<<"usr", "lib64", "liba.so">>>>}

\* the arguments of a call CopyTree(baseDir, outputDir, globs, excludes, nss,
\* follow, true), with the tables SetSoPaths left
Call(globs, excludes, follow, soMap) ==
    [chrootDir |-> baseDir, globs |-> globs, excludes |-> excludes, nss |-> FALSE,
     follow |-> follow, exs |-> {}, soMap |-> soMap, preload |-> <<>>]

InitCopy ==
    /\ \E link \in LinkNames, text \in LinkTexts, mode \in LibModes, hasB \in BOOLEAN,
          follow \in BOOLEAN, excludes \in ExcludeLists :
          /\ fs = FsOf(HostTree \cup SourceTree(link, text, mode, hasB) \cup OutputTree)
          /\ \E globs \in GlobLists(link) :
                copyCfg = Call(globs, excludes, follow, SoMapOf(link, hasB))
    /\ stack = <<>>
    /\ copyRet = [pc |-> "ready", err |-> ""]
    /\ copyLog = NoLog
    /\ resolver = NoResolver
    /\ OciIdle
    /\ RestIdle
    /\ nssPc = "idle"
    /\ nssCall = NoCall
    /\ nssRet = NoCall
    /\ etcFiles = NoEtc
    /\ etcWrote = {}

\* CopyTree up to its walks: the excludes and the globs are expanded
DoCopyTree ==
    /\ copyRet.pc = "ready"
    /\ copyCfg' = [copyCfg EXCEPT !.exs = ExsOf(fs, copyCfg.excludes)]
    /\ stack' = <<Frame("globs", "top", GlobAll(fs, GlobsOf(copyCfg.globs)), {})>>
    /\ copyRet' = [pc |-> "walking", err |-> ""]
    /\ UNCHANGED <<fs, copyLog, resolver>>
    /\ UNCHANGED nssVars
    /\ UNCHANGED ociVars
    /\ UNCHANGED restVars

\* filepath.Walk(path, copier(...)) begins for the next path of the globs
WalkPath ==
    /\ copyRet.pc = "walking"
    /\ Len(stack) = 1
    /\ stack[1].todo # <<>>
    /\ stack' = <<[stack[1] EXCEPT !.todo = Tail(stack[1].todo)],
                  Frame("walk", "top", <<Head(stack[1].todo)>>, {})>>
    /\ UNCHANGED <<fs, copyCfg, copyRet, copyLog, resolver>>
    /\ UNCHANGED nssVars
    /\ UNCHANGED ociVars
    /\ UNCHANGED restVars

\* filepath.Walk(dep, copier(...)) begins for a dependency, in the order the
\* map of Deps is ranged over
WalkDep ==
    /\ copyRet.pc = "walking"
    /\ Len(stack) > 1
    /\ Top(stack).kind = "deps"
    /\ \E dep \in Top(stack).deps :
          stack' = Append(Append(Pop(stack), [Top(stack) EXCEPT !.deps = @ \ {dep}]),
                          Frame("walk", "dep", <<dep>>, {}))
    /\ UNCHANGED <<fs, copyCfg, copyRet, copyLog, resolver>>
    /\ UNCHANGED nssVars
    /\ UNCHANGED ociVars
    /\ UNCHANGED restVars

Walking ==
    /\ copyRet.pc = "walking"
    /\ Len(stack) > 1
    /\ Top(stack).kind = "walk"

\* the path the walk function is called with next
NextPath == Head(Top(stack).todo)

Passed(s) ==
    /\ fs' = s.fs
    /\ resolver' = ResolverOf(s)
    /\ UNCHANGED <<copyCfg, stack, copyRet, copyLog>>

\* copier is in walkAndCopySymlinks: one pass of its loop
Resolve ==
    /\ Walking
    /\ resolver.on \/ Resolves(copyCfg, fs, NextPath)
    /\ ~resolver.over
    /\ Passed(WalkSymlinks(copyCfg, resolver, fs, NextPath))
    /\ UNCHANGED nssVars
    /\ UNCHANGED ociVars
    /\ UNCHANGED restVars

\* walkAndCopySymlinks has returned, or copier does not call it
Resolved == resolver.over \/ (~resolver.on /\ ~Resolves(copyCfg, fs, NextPath))

\* copier returned nil for path: the walk goes on
Visited(path, r) ==
    /\ r.err = ""
    /\ fs' = r.fs
    /\ copyLog' = Logged(copyLog, r, Top(stack).root)
    /\ stack' = Descend(stack, Children(fs, path, Lstat(fs, path)), r.deps)
    /\ resolver' = NoResolver
    /\ UNCHANGED <<copyCfg, copyRet>>

Visit ==
    /\ Walking
    /\ Resolved
    /\ Visited(NextPath, copier(copyCfg, fs, NextPath, resolver))
    /\ UNCHANGED nssVars
    /\ UNCHANGED ociVars
    /\ UNCHANGED restVars

\* copier returned an error in a walk of a path of the globs: CopyTree
\* returns it
Aborted(r) ==
    /\ r.err # ""
    /\ fs' = r.fs
    /\ copyLog' = Logged(copyLog, r, Top(stack).root)
    /\ stack' = <<>>
    /\ copyRet' = [pc |-> "done", err |-> r.err]
    /\ resolver' = NoResolver
    /\ UNCHANGED copyCfg

FailWalk ==
    /\ Walking
    /\ Top(stack).root = "top"
    /\ Resolved
    /\ Aborted(copier(copyCfg, fs, NextPath, resolver))
    /\ UNCHANGED nssVars
    /\ UNCHANGED ociVars
    /\ UNCHANGED restVars

\* copier returned an error in the walk of a dependency: the walk ends and
\* its error is dropped
Dropped(r) ==
    /\ r.err # ""
    /\ fs' = r.fs
    /\ copyLog' = Logged(copyLog, r, Top(stack).root)
    /\ stack' = Settle(Pop(stack))
    /\ resolver' = NoResolver
    /\ UNCHANGED <<copyCfg, copyRet>>

FailDep ==
    /\ Walking
    /\ Top(stack).root = "dep"
    /\ Resolved
    /\ Dropped(copier(copyCfg, fs, NextPath, resolver))
    /\ UNCHANGED nssVars
    /\ UNCHANGED ociVars
    /\ UNCHANGED restVars

\* every path was walked: CopyTree returns nil
Return ==
    /\ copyRet.pc = "walking"
    /\ Len(stack) = 1
    /\ stack[1].todo = <<>>
    /\ stack' = <<>>
    /\ copyRet' = [pc |-> "done", err |-> ""]
    /\ UNCHANGED <<fs, copyCfg, copyLog, resolver>>
    /\ UNCHANGED nssVars
    /\ UNCHANGED ociVars
    /\ UNCHANGED restVars

NextCopy ==
    DoCopyTree \/ WalkPath \/ WalkDep \/ Resolve \/ Visit \/ FailWalk \/ FailDep \/ Return

SpecCopy == InitCopy /\ [][NextCopy]_vars

(***************************************************************************)
(* CopyTree: dependency closure and symlink mirror.                        *)
(***************************************************************************)
\* where the path p of an image leads inside the image whose root is at
\* root, as a process confined to that root resolves it; <<>> when nowhere
RECURSIVE InRoot(_, _, _, _, _)
InRoot(f, root, dir, rest, fuel) ==
    IF rest = <<>> THEN dir
    ELSE IF Head(rest) \in {"", "."} THEN InRoot(f, root, dir, Tail(rest), fuel)
    ELSE IF Head(rest) = ".."
    THEN InRoot(f, root, IF dir = root THEN root ELSE Parent(dir), Tail(rest), fuel)
    ELSE IF Append(dir, Head(rest)) \notin DOMAIN f THEN <<>>
    ELSE IF f[Append(dir, Head(rest))].type # "link"
    THEN InRoot(f, root, Append(dir, Head(rest)), Tail(rest), fuel)
    ELSE IF fuel = 0 THEN <<>>
    ELSE InRoot(f, root,
                IF IsAbs(f[Append(dir, Head(rest))].text) THEN root ELSE dir,
                f[Append(dir, Head(rest))].text \o Tail(rest), fuel - 1)

SrcAt(p) == InRoot(fs, <<"c">>, <<"c">>, p, MaxOsLinks)

OutAt(p) == InRoot(fs, <<"o">>, <<"o">>, p, MaxOsLinks)

\* the path FindLibrary resolves the library need of the ELF at e to
ResolvedLib(e, need) ==
    FindLibrary(copyCfg, fs, need, SearchPaths(copyCfg, fs[e].elf, <<"">> \o e))

NeedsOf(e) == {fs[e].elf.needs[i] : i \in 1..Len(fs[e].elf.needs)}

IsElfAt(e) == e # <<>> /\ fs[e].type = "file" /\ fs[e].elf.is

\* the ELF files the ELF at e needs or is interpreted by
EdgesOf(e) ==
    {t \in {SrcAt(ResolvedLib(e, need)) : need \in NeedsOf(e)}
           \cup {SrcAt(fs[e].elf.interp)} : IsElfAt(t)}

RECURSIVE ReachableFrom(_)
ReachableFrom(S) ==
    IF UNION {EdgesOf(e) : e \in S} \subseteq S THEN S
    ELSE ReachableFrom(S \cup UNION {EdgesOf(e) : e \in S})

\* the library is in the output at its resolved path, or was reported
Satisfied(need, r) ==
    IF r = <<>> THEN need \in {w[1] : w \in copyLog.warned} ELSE OutAt(r) # <<>>

ClosedUnder(e) == \A need \in NeedsOf(e) : Satisfied(need, ResolvedLib(e, need))

CopyReturned == copyRet.pc = "done" /\ copyCfg.follow

\* C1: after CopyTree with follow returned without error, every DT_NEEDED
\* library of every ELF reachable, through needed and interpreter edges, from
\* an executable regular file that was copied is in the output tree at its
\* resolved path or was reported as unresolved.
C1_DependencyClosure ==
    (CopyReturned /\ copyRet.err = "")
        => \A c \in copyLog.copied :
              (c.exec /\ IsElfAt(c.src)) => \A e \in ReachableFrom({c.src}) : ClosedUnder(e)

\* the place of the output that mirrors the symlink at loc: the output
\* directory and the path of the symlink without the chroot prefix
MirrorOf(loc) == Lstat(fs, PathJoin(outputDir, TrimPrefix(<<"">> \o loc, baseDir)))

Mirrored(t, m) == m.err = "" /\ fs[m.loc].type = "link" /\ fs[m.loc].text = t.text

\* C2: when CopyTree with follow returns, every symlink walkAndCopySymlinks
\* traversed during the call has in the output tree, at the output directory
\* plus its path without the chroot prefix, a symlink of the same link text.
C2_SymlinkMirror ==
    CopyReturned => \A t \in copyLog.traversed : Mirrored(t, MirrorOf(t.loc))

(***************************************************************************)
(* The loader cache (manifest.go): SetSoPaths parses the listing that      *)
(* ldconfig prints into the soMap, FindLibrary looks a library up.  The    *)
(* listing is a string of characters; a path is the elements between its   *)
(* separators, as everywhere in the tree copier.                           *)
(***************************************************************************)
MaxLines == 4

RECURSIVE Str(_)
\* the string made of the characters
Str(chars) == IF chars = <<>> THEN "" ELSE Head(chars) \o Str(Tail(chars))

StrEach(parts) == [i \in 1..Len(parts) |-> Str(parts[i])]

\* a path string as its elements: "" is <<>>, "/a/b" is <<"", "a", "b">>
Elems(chars) == IF chars = <<>> THEN <<>> ELSE StrEach(Split(chars, "/"))

RECURSIVE IndexFrom(_, _, _)
IndexFrom(s, c, n) ==
    IF s = <<>> THEN -1
    ELSE IF Head(s) = c THEN n
    ELSE IndexFrom(Tail(s), c, n + 1)

\* strings.IndexRune(s, c)
IndexRune(s, c) == IndexFrom(s, c, 0)

RECURSIVE IndexArrowFrom(_, _)
IndexArrowFrom(s, n) ==
    IF Len(s) < 2 THEN -1
    ELSE IF s[1] = "-" /\ s[2] = ">" THEN n
    ELSE IndexArrowFrom(Tail(s), n + 1)

\* strings.Index(s, "->"): where strings.Split(s, "->") ends its first part
IndexArrow(s) == IndexArrowFrom(s, 0)

\* strings.HasSuffix(s, suffix)
HasSuffix(s, suffix) ==
    Len(s) >= Len(suffix) /\ SubSeq(s, Len(s) - Len(suffix) + 1, Len(s)) = suffix

IsSpace(c) == c \in {" ", "\t", "\n", "\r"}

RECURSIVE TrimLeft(_)
TrimLeft(s) == IF s # <<>> /\ IsSpace(Head(s)) THEN TrimLeft(Tail(s)) ELSE s

RECURSIVE TrimRight(_)
TrimRight(s) ==
    IF s # <<>> /\ IsSpace(s[Len(s)]) THEN TrimRight(SubSeq(s, 1, Len(s) - 1)) ELSE s

\* strings.TrimSpace(s)
TrimSpace(s) == TrimRight(TrimLeft(s))

DotSo == <<".", "s", "o">>

\* filepath.Join(a, b), which is "" when both are
FilepathJoin(a, b) == IF a = <<>> /\ b = <<>> THEN <<>> ELSE PathJoin(a, b)

\* path = line[:loc], and filepath.Dir(path) when it ends in .so
SoDirectory(path) == IF HasSuffix(path, DotSo) THEN PathDir(Elems(path)) ELSE Elems(path)

\* source := strings.TrimSpace(parts[0])
SoSource(line) == TrimSpace(SubSeq(line, 1, IndexArrow(line)))

SoInsertLast(soMap, source, full) ==
    [k \in DOMAIN soMap \cup {source} |-> IF k = source THEN full ELSE soMap[k]]

\* if _, ok := soMap[source]; !ok { soMap[source] = full }
SoInsert(soMap, source, full) ==
    IF source \in DOMAIN soMap THEN soMap
    ELSE [k \in DOMAIN soMap \cup {source} |-> IF k = source THEN full ELSE soMap[k]]

\* one pass of the loop of SetSoPaths over a line, st its path and soMap
SoLine(st, line) ==
    IF line = <<>> THEN st
    ELSE IF line[1] = "/" /\ IndexRune(line, ":") # -1
    THEN [st EXCEPT !.path = SoDirectory(SubSeq(line, 1, IndexRune(line, ":")))]
    ELSE IF IndexArrow(line) # -1
    THEN [st EXCEPT !.soMap = SoInsert(@, Str(SoSource(line)),
                                       FilepathJoin(st.path, Elems(SoSource(line))))]
    ELSE st

RECURSIVE SoLines(_, _)
SoLines(st, lines) ==
    IF lines = <<>> THEN st ELSE SoLines(SoLine(st, Head(lines)), Tail(lines))

\* SetSoPaths(ldconfigout, preload): the soMap it leaves
SetSoPaths(ldconfigout) ==
    SoLines([path |-> <<>>, soMap |-> <<>>], Split(ldconfigout, "\n")).soMap

\* the lines a listing is made of, each with the text ldconfig prints and what
\* the line means: a directory, a soname and its target, or neither
DirLine(text, dir) == [text |-> text, kind |-> "dir", dir |-> dir, soname |-> ""]

ArrowLine(text, soname) == [text |-> text, kind |-> "arrow", dir |-> <<>>, soname |-> soname]

OtherLine(text) == [text |-> text, kind |-> "other", dir |-> <<>>, soname |-> ""]

DirLines ==
    {DirLine(<<"/", "a", ":">>, <<"", "a">>),
     DirLine(<<"/", "b", ":", " ", "c", ":", "1">>, <<"", "b">>),
     DirLine(<<"/", "a", "/", "p", ".", "s", "o", ":">>, <<"", "a">>)}

ArrowLines ==
    {ArrowLine(<<"\t", "x", " ", "-", ">", " ", "v">>, "x"),
     ArrowLine(<<"\t", "y", " ", "-", ">", " ", "v">>, "y"),
     ArrowLine(<<"x", "-", ">", "w", ":">>, "x")}

OtherLines == {OtherLine(<<>>), OtherLine(<<"\t", "x">>), OtherLine(<<"/", "b">>)}

\* the listings: a directory line first, as ldconfig prints them
Listings ==
    UNION {{<<d>> \o rest : d \in DirLines,
                            rest \in [1..n -> DirLines \cup ArrowLines \cup OtherLines]}
           : n \in 0..(MaxLines - 1)}

RECURSIVE TextOf(_)
\* the output of ldconfig for the lines, each ended by a newline
TextOf(lines) ==
    IF lines = <<>> THEN <<>> ELSE Head(lines).text \o <<"\n">> \o TextOf(Tail(lines))

\* the values the NSS variables hold while no call is made
NssIdle ==
    /\ nssPc = "idle"
    /\ nssCall = NoCall
    /\ nssRet = NoCall
    /\ etcFiles = NoEtc
    /\ etcWrote = {}

LibNames == {"x", "y", "z"}

\* the chroot FindLibrary looks into, with /lib/z in none of the listings
SoTree == {<<<<>>, DirNode>>, <<<<"lib">>, DirNode>>, File(<<"lib", "z">>, "0755", NoElf)}

SoCfg(soMap) == [chrootDir |-> <<>>, soMap |-> soMap]

InitSo ==
    /\ \E lines \in Listings :
          ldso = [pc |-> "start", lines |-> lines, out |-> TextOf(lines),
                  soMap |-> <<>>, lib |-> "", ret |-> <<>>]
    /\ NssIdle
    /\ OciIdle
    /\ CopyIdle
    /\ unpack = NoUnpack
    /\ push = NoPush
    /\ pipe = NoPipe
    /\ build = NoBuild

DoSetSoPaths ==
    /\ ldso.pc = "start"
    /\ ldso' = [ldso EXCEPT !.pc = "set", !.soMap = SetSoPaths(ldso.out)]
    /\ UNCHANGED nssVars
    /\ UNCHANGED ociVars
    /\ UNCHANGED copyVars
    /\ UNCHANGED <<unpack, push, pipe, build>>

DoFindLibrary ==
    /\ ldso.pc = "set"
    /\ \E library \in LibNames :
          ldso' = [ldso EXCEPT !.pc = "found", !.lib = library,
                               !.ret = FindLibrary(SoCfg(ldso.soMap), FsOf(SoTree),
                                                   library, <<>>)]
    /\ UNCHANGED nssVars
    /\ UNCHANGED ociVars
    /\ UNCHANGED copyVars
    /\ UNCHANGED <<unpack, push, pipe, build>>

NextSo == DoSetSoPaths \/ DoFindLibrary

SpecSo == InitSo /\ [][NextSo]_vars

(***************************************************************************)
(* Claims about the loader cache, checked under SpecSo.                    *)
(***************************************************************************)
\* the directory line nearest before line i
DirBefore(lines, i) ==
    lines[CHOOSE j \in 1..(i - 1) :
              /\ lines[j].kind = "dir"
              /\ \A k \in (j + 1)..(i - 1) : lines[k].kind # "dir"].dir

\* line i is the first line that maps its soname
FirstArrow(lines, i) ==
    /\ lines[i].kind = "arrow"
    /\ \A j \in 1..(i - 1) : lines[j].kind = "arrow" => lines[j].soname # lines[i].soname

\* C13: once SetSoPaths has parsed a listing, every soname on the left of a
\* "->" line is mapped to <directory>/<soname>, the directory being the one of
\* the nearest directory line before the first line that names the soname
\* (the parent for a directory ending in .so), and FindLibrary without
\* extra paths returns that mapping.
C13_SoMap ==
    ldso.pc \in {"set", "found"} =>
        \A i \in 1..Len(ldso.lines) :
            FirstArrow(ldso.lines, i) =>
                /\ ldso.lines[i].soname \in DOMAIN ldso.soMap
                /\ ldso.soMap[ldso.lines[i].soname]
                       = DirBefore(ldso.lines, i) \o <<ldso.lines[i].soname>>
                /\ (ldso.pc = "found" /\ ldso.lib = ldso.lines[i].soname) =>
                       ldso.ret = DirBefore(ldso.lines, i) \o <<ldso.lines[i].soname>>

\* a soname listed under /a/p.so and again under /b is looked up and found in /a
C13_Witness ==
    /\ ldso.pc = "found"
    /\ ldso.lib = "x"
    /\ ldso.ret = <<"", "a", "x">>
    /\ Len(ldso.lines) = 4
    /\ ldso.lines[1].text = <<"/", "a", "/", "p", ".", "s", "o", ":">>
    /\ ldso.lines[2].kind = "arrow" /\ ldso.lines[2].soname = "x"
    /\ ldso.lines[3].dir = <<"", "b">>
    /\ ldso.lines[4].kind = "arrow" /\ ldso.lines[4].soname = "x"

(***************************************************************************)
(* ExtractOci and extractLayer (oci.go): the layers of an image unpacked   *)
(* over the destination outputDir, one tar entry at a time.  The name of   *)
(* an entry is its elements, each a sequence of characters.                *)
(***************************************************************************)
MaxEntries == 3

MaxLayers == 2

\* strings.HasPrefix(s, prefix)
HasPrefix(s, prefix) == Len(s) >= Len(prefix) /\ SubSeq(s, 1, Len(prefix)) = prefix

WhPrefix == <<".", "w", "h", ".">>

\* filepath.Base(clean) as characters: the element of name that clean ends with
BaseOf(name, clean) ==
    IF \E i \in 1..Len(name) : Str(name[i]) = clean[Len(clean)]
    THEN name[CHOOSE i \in 1..Len(name) : Str(name[i]) = clean[Len(clean)]]
    ELSE <<>>

\* the name with the prefix left on it
WhiteoutNameWhole(clean, base) == PathJoin(PathDir(clean), <<Str(base)>>)

\* filepath.Join(filepath.Dir(clean), base[4:])
WhiteoutName(clean, base) == PathJoin(PathDir(clean), <<Str(SubSeq(base, 5, Len(base)))>>)

\* what os.RemoveAll, os.MkdirAll, os.Symlink and os.Link leave, their errors dropped
Dropping(r) == r.fs

\* hdr.Linkname of a hard link, under outDir when absolute
LinkTarget(linkname) == IF IsAbs(linkname) THEN PathJoin(outputDir, linkname) ELSE linkname

\* the permissions of a regular file, normalized
FilePerm(hdr) == IF hdr.exec THEN "0755" ELSE "0644"

\* writeFile(path, tarIn, fPerm), the file opened with O_CREATE|O_TRUNC
WriteFileAt(f, d, perm, data) ==
    IF d.err = "ENOENT" /\ d.last
    THEN [err |-> "", fs |-> Put(f, d.loc, FileNode(data, perm, NoElf))]
    ELSE IF d.err # "" THEN [err |-> d.err, fs |-> f]
    ELSE IF f[d.loc].type # "file" THEN [err |-> "EISDIR", fs |-> f]
    ELSE [err |-> "",
          fs |-> [l \in DOMAIN f |->
                    IF f[l].type = "file" /\ f[l].ino = f[d.loc].ino
                    THEN [f[l] EXCEPT !.ino = data] ELSE f[l]]]

writeFile(f, path, perm, data) == WriteFileAt(f, Stat(f, path), perm, data)

\* the switch on hdr.Typeflag, the location having been cleared
ExtractType(f, hdr, path) ==
    IF hdr.type = "dir" THEN [err |-> "", fs |-> Dropping(MkdirAll(f, path))]
    ELSE IF hdr.type = "symlink"
    THEN [err |-> "", fs |-> Dropping(Symlink(f, hdr.linkname, path))]
    ELSE IF hdr.type = "link"
    THEN [err |-> "", fs |-> Dropping(Link(f, LinkTarget(hdr.linkname), path))]
    ELSE IF hdr.type = "reg" THEN writeFile(f, path, FilePerm(hdr), <<"tar", hdr.text>>)
    ELSE [err |-> "", fs |-> f]

\* an entry that is no whiteout: what is at path is removed unless it is a
\* directory and the entry is one, then the entry is made
ExtractAt(f, hdr, path, info) ==
    IF info.err = "" /\ ~(hdr.type = "dir" /\ f[info.loc].type = "dir")
    THEN ExtractType(RemoveAll(f, path), hdr, path)
    ELSE ExtractType(f, hdr, path)

\* one pass of the loop of extractLayer, clean the cleaned name and base its
\* base name
ExtractClean(f, hdr, clean, base) ==
    IF HasPrefix(base, WhPrefix)
    THEN [err |-> "", fs |-> RemoveAll(f, PathJoin(outputDir, WhiteoutName(clean, base)))]
    ELSE ExtractAt(f, hdr, PathJoin(outputDir, clean), Lstat(f, PathJoin(outputDir, clean)))

ExtractNamed(f, hdr, clean) == ExtractClean(f, hdr, clean, BaseOf(hdr.name, clean))

ExtractEntry(f, hdr) == ExtractNamed(f, hdr, Clean(StrEach(hdr.name)))

\* the tar entries: a whiteout .wh.X in the directory d, with what it means,
\* and the entries of the other types
Whiteout(text, d, x) ==
    [text |-> text, name |-> d \o <<WhPrefix \o x>>, type |-> "reg", linkname |-> <<>>,
     exec |-> FALSE, wh |-> TRUE, d |-> StrEach(d), x |-> Str(x)]

TarEntry(text, name, type, linkname, exec) ==
    [text |-> text, name |-> name, type |-> type, linkname |-> linkname, exec |-> exec,
     wh |-> FALSE, d |-> <<>>, x |-> ""]

cF == <<"f">>

cB == <<"b">>

TarEntries ==
    {Whiteout("f/.wh.b", <<cF>>, cB),
     Whiteout("f/.wh.c", <<cF>>, <<"c">>),
     Whiteout(".wh.g", <<>>, <<"g">>),
     Whiteout("l/.wh.b", <<<<"l">>>>, cB),
     Whiteout("f/b/.wh.k", <<cF, cB>>, <<"k">>),
     Whiteout("f/.wh.z", <<cF>>, <<"z">>),
     TarEntry("f/b/", <<cF, cB>>, "dir", <<>>, FALSE),
     TarEntry("f/c", <<cF, <<"c">>>>, "reg", <<>>, TRUE),
     TarEntry("f/.whb", <<cF, <<".", "w", "h", "b">>>>, "reg", <<>>, FALSE),
     TarEntry("g", <<<<"g">>>>, "symlink", <<"f">>, FALSE),
     TarEntry("f/h", <<cF, <<"h">>>>, "link", <<"", "f", "c">>, FALSE),
     TarEntry("z/y", <<<<"z">>, <<"y">>>>, "reg", <<>>, FALSE),
     TarEntry("../h/b", <<<<".", ".">>, <<"h">>, <<"b">>>>, "reg", <<>>, FALSE),
     TarEntry("f/p", <<cF, <<"p">>>>, "fifo", <<>>, FALSE)}

NoHdr == TarEntry("", <<>>, "none", <<>>, FALSE)

\* the destination before ExtractOci: /o/f/b/k, /o/f/c and /o/g/b, and /o/l,
\* absent or a symlink; /h/b is beside the destination
LTexts == {<<>>, <<"f">>, <<"", "h">>}

DestTree(ltext) ==
    {<<<<>>, DirNode>>, <<<<"h">>, DirNode>>, File(<<"h", "b">>, "0644", NoElf),
     <<<<"o">>, DirNode>>, <<<<"o", "f">>, DirNode>>, <<<<"o", "f", "b">>, DirNode>>,
     File(<<"o", "f", "b", "k">>, "0644", NoElf), File(<<"o", "f", "c">>, "0644", NoElf),
     <<<<"o", "g">>, DirNode>>, File(<<"o", "g", "b">>, "0755", NoElf)}
    \cup (IF ltext = <<>> THEN {} ELSE {<<<<"o", "l">>, LinkNode(ltext)>>})

InitUnpack ==
    /\ \E ltext \in LTexts :
          unpack = [pc |-> "start", fs |-> FsOf(DestTree(ltext)), prev |-> <<>>,
                    hdr |-> NoHdr, n |-> 0, layers |-> 0, err |-> ""]
    /\ NssIdle
    /\ OciIdle
    /\ CopyIdle
    /\ ldso = NoLdso
    /\ push = NoPush
    /\ pipe = NoPipe
    /\ build = NoBuild

\* ExtractOci(image, outDir) begins: the first layer, or none
DoExtractOci ==
    /\ unpack.pc = "start"
    /\ \E pc \in {"layer", "done"} : unpack' = [unpack EXCEPT !.pc = pc]
    /\ UNCHANGED <<nssVars, ociVars, copyVars, ldso, push, pipe, build>>

\* tarIn.Next() gives an entry and extractLayer extracts it
ReadEntry(hdr, r) ==
    unpack' = [unpack EXCEPT !.pc = IF r.err # "" THEN "done" ELSE "layer",
                             !.fs = r.fs, !.prev = unpack.fs, !.hdr = hdr,
                             !.n = @ + 1, !.err = r.err]

DoExtractEntry ==
    /\ unpack.pc = "layer"
    /\ unpack.n < MaxEntries
    /\ \E hdr \in TarEntries : ReadEntry(hdr, ExtractEntry(unpack.fs, hdr))
    /\ UNCHANGED <<nssVars, ociVars, copyVars, ldso, push, pipe, build>>

\* tarIn.Next() gives io.EOF: the next layer of the image
NextLayer ==
    /\ unpack.pc = "layer"
    /\ unpack.layers + 1 < MaxLayers
    /\ unpack' = [unpack EXCEPT !.layers = @ + 1, !.n = 0, !.hdr = NoHdr]
    /\ UNCHANGED <<nssVars, ociVars, copyVars, ldso, push, pipe, build>>

\* tarIn.Next() gives io.EOF in the last layer: ExtractOci returns nil
ExtractReturn ==
    /\ unpack.pc = "layer"
    /\ unpack' = [unpack EXCEPT !.pc = "done", !.layers = @ + 1, !.hdr = NoHdr]
    /\ UNCHANGED <<nssVars, ociVars, copyVars, ldso, push, pipe, build>>

NextUnpack == DoExtractOci \/ DoExtractEntry \/ NextLayer \/ ExtractReturn

SpecUnpack == InitUnpack /\ [][NextUnpack]_vars

(***************************************************************************)
(* Claims about ExtractOci, checked under SpecUnpack.                      *)
(***************************************************************************)
\* the entry last read was the whiteout of d/X
WhiteoutRead == unpack.pc \in {"layer", "done"} /\ unpack.hdr.wh

\* the entry d/X and all beneath it, as the destination held it before
Under(f, st) ==
    IF st.err # "" THEN {}
    ELSE {l \in DOMAIN f : Len(l) >= Len(st.loc) /\ SubSeq(l, 1, Len(st.loc)) = st.loc}

WhitedOut == Under(unpack.prev, Lstat(unpack.prev, outputDir \o unpack.hdr.d \o <<unpack.hdr.x>>))

\* C14: when extractLayer has processed a tar entry named .wh.X in the
\* directory d, the destination entry d/X and everything beneath it is gone,
\* no entry d/.wh.X was created, and every other entry is as it was.
C14_Whiteout ==
    WhiteoutRead =>
        /\ Lstat(unpack.fs, outputDir \o unpack.hdr.d \o <<unpack.hdr.x>>).err # ""
        /\ DOMAIN unpack.fs = DOMAIN unpack.prev \ WhitedOut
        /\ \A l \in DOMAIN unpack.fs : unpack.fs[l] = unpack.prev[l]
        /\ Lstat(unpack.fs, outputDir \o StrEach(unpack.hdr.name)).err # ""

\* the layer with f/.wh.b over the destination with the directory f/b: f/b
\* and f/b/k are gone
C14_Witness ==
    /\ WhiteoutRead
    /\ unpack.hdr.text = "f/.wh.b"
    /\ <<"o", "f", "b", "k">> \in DOMAIN unpack.prev
    /\ unpack.prev[<<"o", "f", "b">>].type = "dir"
    /\ <<"o", "f", "b">> \notin DOMAIN unpack.fs
    /\ <<"o", "f", "b", "k">> \notin DOMAIN unpack.fs
    /\ <<"o", "f", "c">> \in DOMAIN unpack.fs

(***************************************************************************)
(* ImageToRepo (remote.go): the layers, the config and then the manifest   *)
(* of an image put to a registry, one request at a time.  The objects are  *)
(* numbered as ImageToRepo puts them: the layers 1..n, the config n + 1    *)
(* and the manifest n + 2; the registry answers every request as it likes. *)
(***************************************************************************)
MaxBlobs == 2

MaxReqs == 12

ConfigObj(p) == p.n + 1

ManifestObj(p) == p.n + 2

\* strings.HasPrefix(path, "blobs/")
IsBlobPath(p) == p.obj <= ConfigObj(p)

\* return err
Fail(p, err) == [p EXCEPT !.pc = "done", !.err = err]

\* r.Client.Do(req) was called and answered with code, 0 for no answer
Sent(p, m, code) == [p EXCEPT !.log = Append(@, [m |-> m, obj |-> p.obj, code |-> code])]

\* the request of GetToken, which is for no object of the image
SentToken(p, code) == [p EXCEPT !.log = Append(@, [m |-> "GET", obj |-> 0, code |-> code])]

\* PutObject(info, path, ct, data) up to its first request
PutObject(p) ==
    IF ~p.host THEN Fail(p, "Host must be specified")
    ELSE IF p.Token = "" /\ p.Auth # "" THEN [p EXCEPT !.pc = "token"]
    ELSE IF IsBlobPath(p) THEN [p EXCEPT !.pc = "head"]
    ELSE [p EXCEPT !.pc = "put"]

\* PrepPutObject(info, path) up to its first request
PrepPutObject(p) ==
    IF p.Token = "" /\ p.Auth # "" THEN [p EXCEPT !.pc = "preptoken"]
    ELSE [p EXCEPT !.pc = "post"]

\* ImageToRepo after PutObject returned nil: the next object, or return nil
PutNext(p) ==
    IF p.obj = ManifestObj(p) THEN [p EXCEPT !.pc = "done"]
    ELSE PutObject([p EXCEPT !.obj = @ + 1])

\* a 401: an error with a token, else extractAuth and the call again
Unauthorized(p, realm, prep) ==
    IF p.Token # "" THEN Fail(p, "Token is invalid")
    ELSE IF realm = "" THEN Fail(p, "invalid WWW-Authenticate header")
    ELSE IF prep THEN PrepPutObject([p EXCEPT !.Auth = realm])
    ELSE PutObject([p EXCEPT !.Auth = realm])

\* GetToken answered: the token of the response is taken, empty or not
AfterToken(p, code, token) ==
    IF code # 200 THEN Fail(p, "Auth server returned invalid response")
    ELSE IF p.pc = "preptoken" THEN [p EXCEPT !.Token = token, !.pc = "post"]
    ELSE [p EXCEPT !.Token = token, !.pc = IF IsBlobPath(p) THEN "head" ELSE "put"]

AfterHeadLenient(p, code, realm) ==
    IF code = 0 THEN Fail(p, "transport")
    ELSE IF code = 401 THEN Unauthorized(p, realm, FALSE)
    ELSE IF code = 404 THEN PrepPutObject(p)
    ELSE PutNext(p)

\* the HEAD of a blob answered
AfterHead(p, code, realm) ==
    IF code = 0 THEN Fail(p, "transport")
    ELSE IF code = 401 THEN Unauthorized(p, realm, FALSE)
    ELSE IF code = 200 THEN PutNext(p)
    ELSE IF code = 404 THEN PrepPutObject(p)
    ELSE Fail(p, "Put request returned invalid response")

\* the POST to blobs/uploads/ answered, location the Location header
AfterPost(p, code, realm, location) ==
    IF code = 0 THEN Fail(p, "transport")
    ELSE IF code = 401 THEN Unauthorized(p, realm, TRUE)
    ELSE IF code # 202 THEN Fail(p, "Blobs post returned invalid response")
    ELSE IF location = "" THEN Fail(p, "Repository did not return an upload url")
    ELSE [p EXCEPT !.pc = "put"]

\* the PUT of the object answered
AfterPut(p, code, realm) ==
    IF code = 0 THEN Fail(p, "transport")
    ELSE IF code = 401 THEN Unauthorized(p, realm, FALSE)
    ELSE IF code # 201 THEN Fail(p, "Put request returned invalid response")
    ELSE PutNext(p)

HeadCodes == {200, 404, 401, 500, 0}

PostCodes == {202, 401, 500, 0}

PutCodes == {201, 401, 500, 0}

TokenCodes == {200, 500}

Realms == {"", "realm"}

InitPush ==
    /\ \E n \in 0..MaxBlobs, auth \in Realms, host \in BOOLEAN :
          push = [pc |-> "start", n |-> n, obj |-> 1, Token |-> "", Auth |-> auth,
                  host |-> host, log |-> <<>>, err |-> ""]
    /\ NssIdle
    /\ OciIdle
    /\ CopyIdle
    /\ ldso = NoLdso
    /\ unpack = NoUnpack
    /\ pipe = NoPipe
    /\ build = NoBuild

\* ImageToRepo(info, image) begins with its first object
DoImageToRepo ==
    /\ push.pc = "start"
    /\ push' = PutObject(push)
    /\ UNCHANGED <<nssVars, ociVars, copyVars, ldso, unpack, pipe, build>>

GetToken ==
    /\ push.pc \in {"token", "preptoken"}
    /\ Len(push.log) < MaxReqs
    /\ \E code \in TokenCodes, token \in {"", "t"} :
          push' = AfterToken(SentToken(push, code), code, token)
    /\ UNCHANGED <<nssVars, ociVars, copyVars, ldso, unpack, pipe, build>>

HeadBlob ==
    /\ push.pc = "head"
    /\ Len(push.log) < MaxReqs
    /\ \E code \in HeadCodes, realm \in Realms :
          push' = AfterHead(Sent(push, "HEAD", code), code, realm)
    /\ UNCHANGED <<nssVars, ociVars, copyVars, ldso, unpack, pipe, build>>

PostUpload ==
    /\ push.pc = "post"
    /\ Len(push.log) < MaxReqs
    /\ \E code \in PostCodes, realm \in Realms, location \in {"", "u"} :
          push' = AfterPost(Sent(push, "POST", code), code, realm, location)
    /\ UNCHANGED <<nssVars, ociVars, copyVars, ldso, unpack, pipe, build>>

PutData ==
    /\ push.pc = "put"
    /\ Len(push.log) < MaxReqs
    /\ \E code \in PutCodes, realm \in Realms :
          push' = AfterPut(Sent(push, "PUT", code), code, realm)
    /\ UNCHANGED <<nssVars, ociVars, copyVars, ldso, unpack, pipe, build>>

NextPush == DoImageToRepo \/ GetToken \/ HeadBlob \/ PostUpload \/ PutData

SpecPush == InitPush /\ [][NextPush]_vars

(***************************************************************************)
(* Claims about ImageToRepo, checked under SpecPush.                       *)
(***************************************************************************)
IsManifestPut(r) == r.m = "PUT" /\ r.obj = push.n + 2

\* the request answers that the blob is there: a HEAD with 200, or the PUT
\* of its data with 201
Confirms(r, k) == r.obj = k /\ ((r.m = "HEAD" /\ r.code = 200) \/ (r.m = "PUT" /\ r.code = 201))

\* the blobs 1..k were confirmed in this order by requests before the i-th
RECURSIVE ConfirmedInOrder(_, _)
ConfirmedInOrder(k, i) ==
    \/ k = 0
    \/ \E j \in 1..(i - 1) : Confirms(push.log[j], k) /\ ConfirmedInOrder(k - 1, j)

\* C15: the manifest PUT comes last, after every layer in layer order and
\* then the config were confirmed present by a HEAD answered 200 or by an
\* upload answered 201; a failed layer or config step makes ImageToRepo
\* return the error without any manifest PUT.
C15_ManifestLast ==
    /\ \A i \in 1..Len(push.log) :
          IsManifestPut(push.log[i]) =>
              /\ ConfirmedInOrder(push.n + 1, i)
              /\ \A j \in (i + 1)..Len(push.log) : push.log[j].obj \notin 1..(push.n + 1)
    /\ (push.pc = "done" /\ push.err = "") =>
          /\ push.log # <<>>
          /\ IsManifestPut(push.log[Len(push.log)])
          /\ push.log[Len(push.log)].code = 201
    /\ \A i \in 1..Len(push.log) :
          (push.log[i].obj \in 1..(push.n + 1) /\ push.log[i].code \in {0, 500}) =>
              /\ push.pc = "done" /\ push.err # ""
              /\ i = Len(push.log)
              /\ \A j \in 1..Len(push.log) : ~IsManifestPut(push.log[j])
    /\ (push.pc = "done" /\ push.err # "" /\ push.obj <= push.n + 1) =>
          \A j \in 1..Len(push.log) : ~IsManifestPut(push.log[j])

\* two layers, the first uploaded after a 404 and the second found by
\* HEAD, the config uploaded, the manifest put: nil is returned
C15_Witness ==
    /\ push.pc = "done" /\ push.err = "" /\ push.n = 2
    /\ Len(push.log) = 9
    /\ push.log[1] = [m |-> "HEAD", obj |-> 1, code |-> 404]
    /\ push.log[3] = [m |-> "PUT", obj |-> 1, code |-> 201]
    /\ push.log[4] = [m |-> "HEAD", obj |-> 2, code |-> 200]
    /\ push.log[5].code = 401
    /\ push.log[9] = [m |-> "PUT", obj |-> 4, code |-> 201]

(***************************************************************************)
(* layerFromPath (oci.go) and the pigz pipe (gzip.go): the tar writer      *)
(* feeds the compressor and tarHash; with pigz the compressor is a process *)
(* behind two pipes, and a goroutine copies its output to the buffer b and *)
(* to gzipHash.  A hasher is the bytes written to it, hashed when read.    *)
(***************************************************************************)
MaxStream == 2

MaxPipe == 2

\* what the compressor makes of a stream: a header, a code for each byte
\* and a trailer
GzHeader == "H"

GzTrailer == "T"

GzCode(x) == "z" \o x

GzCodes(bytes) == [i \in 1..Len(bytes) |-> GzCode(bytes[i])]

GzStream(bytes) == <<GzHeader>> \o GzCodes(bytes) \o <<GzTrailer>>

\* the end of the archive that tarOut.Close() writes
TarFooter == "0"

\* the compressor fed the bytes: the header goes before its first output
GzFeed(started, bytes) == (IF started THEN <<>> ELSE <<GzHeader>>) \o GzCodes(bytes)

GzEnd(started) == (IF started THEN <<>> ELSE <<GzHeader>>) \o <<GzTrailer>>

\* io.MultiWriter(gzipOut, tarHash).Write(bytes): to pigz's stdin or through
\* gzip.Writer to the buffer and gzipHash, and to tarHash
TarWrite(p, bytes) ==
    IF p.pigz
    THEN [p EXCEPT !.stream = @ \o bytes, !.stdin = @ \o bytes, !.tarHash = @ \o bytes]
    ELSE [p EXCEPT !.stream = @ \o bytes, !.tarHash = @ \o bytes,
                   !.b = @ \o GzFeed(p.started, bytes),
                   !.gzipHash = @ \o GzFeed(p.started, bytes),
                   !.started = TRUE]

\* gzipOut.Close(): stdin closed, for PigzWriter; the trailer, for gzip.Writer
GzipClose(p) ==
    IF p.pigz THEN [p EXCEPT !.stdinOpen = FALSE, !.pc = "wait"]
    ELSE [p EXCEPT !.b = @ \o GzEnd(p.started), !.gzipHash = @ \o GzEnd(p.started),
                   !.started = TRUE, !.pc = "diffSha"]

WaitsNot(p) == TRUE

\* z.wg.Wait() in PigzWriter.Close: the copy goroutine has returned
Waits(p) == p.copier = "done"

InitPipe ==
    /\ \E n \in 0..MaxStream, pigz \in BOOLEAN :
         \E tar \in [1..n -> {"a", "b"}] :
            pipe = [pc |-> "start", pigz |-> pigz, tar |-> tar, stream |-> <<>>,
                    tarHash |-> <<>>, stdin |-> <<>>, stdinOpen |-> TRUE, started |-> FALSE,
                    stdout |-> <<>>, stdoutOpen |-> TRUE, copier |-> "read", held |-> <<>>,
                    b |-> <<>>, gzipHash |-> <<>>, err |-> "",
                    DiffID |-> <<>>, layerSha |-> <<>>, Data |-> <<>>, Digest |-> <<>>]
    /\ NssIdle
    /\ OciIdle
    /\ CopyIdle
    /\ ldso = NoLdso
    /\ unpack = NoUnpack
    /\ push = NoPush
    /\ build = NoBuild

\* layerFromPath(path, uid, gid) up to filepath.Walk
DoLayerFromPath ==
    /\ pipe.pc = "start"
    /\ pipe' = [pipe EXCEPT !.pc = "walk"]
    /\ UNCHANGED <<nssVars, ociVars, copyVars, ldso, unpack, push, build>>

\* the tar writer writes the next bytes of the archive
WriteTar ==
    /\ pipe.pc = "walk"
    /\ pipe.tar # <<>>
    /\ Len(pipe.stdin) < MaxPipe
    /\ pipe' = [TarWrite(pipe, <<Head(pipe.tar)>>) EXCEPT !.tar = Tail(@)]
    /\ UNCHANGED <<nssVars, ociVars, copyVars, ldso, unpack, push, build>>

\* filepath.Walk returns an error: both writers are closed, nil is returned
WalkError ==
    /\ pipe.pc = "walk"
    /\ Len(pipe.stdin) < MaxPipe
    /\ pipe' = [TarWrite(pipe, <<TarFooter>>) EXCEPT !.pc = "closeGzip", !.err = "walk"]
    /\ UNCHANGED <<nssVars, ociVars, copyVars, ldso, unpack, push, build>>

\* tarOut.Close()
CloseTar ==
    /\ pipe.pc = "walk"
    /\ pipe.tar = <<>>
    /\ Len(pipe.stdin) < MaxPipe
    /\ pipe' = [TarWrite(pipe, <<TarFooter>>) EXCEPT !.pc = "closeGzip"]
    /\ UNCHANGED <<nssVars, ociVars, copyVars, ldso, unpack, push, build>>

\* gzipOut.Close() is called
CloseGzip ==
    /\ pipe.pc = "closeGzip"
    /\ pipe' = GzipClose(pipe)
    /\ UNCHANGED <<nssVars, ociVars, copyVars, ldso, unpack, push, build>>

\* PigzWriter.Close returns: the goroutine is waited for, then the process
WaitPigz ==
    /\ pipe.pc = "wait"
    /\ Waits(pipe)
    /\ pipe' = [pipe EXCEPT !.pc = IF pipe.err # "" THEN "done" ELSE "diffSha"]
    /\ UNCHANGED <<nssVars, ociVars, copyVars, ldso, unpack, push, build>>

\* diffSha := gdigest.NewDigest("sha256", tarHash)
ReadTarHash ==
    /\ pipe.pc = "diffSha"
    /\ pipe' = [pipe EXCEPT !.pc = IF pipe.err # "" THEN "done" ELSE "layerSha",
                            !.DiffID = IF pipe.err # "" THEN @ ELSE digest(pipe.tarHash)]
    /\ UNCHANGED <<nssVars, ociVars, copyVars, ldso, unpack, push, build>>

\* layerSha := gdigest.NewDigest("sha256", gzipHash)
ReadGzipHash ==
    /\ pipe.pc = "layerSha"
    /\ pipe' = [pipe EXCEPT !.pc = "data", !.layerSha = digest(pipe.gzipHash)]
    /\ UNCHANGED <<nssVars, ociVars, copyVars, ldso, unpack, push, build>>

\* layer := Layer{DiffID: diffSha, Data: b.Bytes()}, and its descriptor
ReadBuffer ==
    /\ pipe.pc = "data"
    /\ pipe' = [pipe EXCEPT !.pc = "done", !.Data = pipe.b, !.Digest = pipe.layerSha]
    /\ UNCHANGED <<nssVars, ociVars, copyVars, ldso, unpack, push, build>>

\* pigz compresses some of what is in its stdin
PigzStep ==
    /\ pipe.pigz
    /\ pipe.stdin # <<>>
    /\ Len(pipe.stdout) < MaxPipe
    /\ \E k \in 1..Len(pipe.stdin) :
          pipe' = [pipe EXCEPT !.stdin = SubSeq(@, k + 1, Len(@)),
                               !.stdout = @ \o GzFeed(pipe.started, SubSeq(pipe.stdin, 1, k)),
                               !.started = TRUE]
    /\ UNCHANGED <<nssVars, ociVars, copyVars, ldso, unpack, push, build>>

\* pigz reads the end of its stdin, writes the trailer and exits
PigzEof ==
    /\ pipe.pigz
    /\ pipe.stdin = <<>>
    /\ ~pipe.stdinOpen
    /\ pipe.stdoutOpen
    /\ pipe' = [pipe EXCEPT !.stdout = @ \o GzEnd(pipe.started), !.started = TRUE,
                            !.stdoutOpen = FALSE]
    /\ UNCHANGED <<nssVars, ociVars, copyVars, ldso, unpack, push, build>>

\* io.Copy(w, z.stdout) in the goroutine: a read of the pipe
CopyRead ==
    /\ pipe.copier = "read"
    /\ pipe.stdout # <<>>
    /\ \E k \in 1..Len(pipe.stdout) :
          pipe' = [pipe EXCEPT !.held = SubSeq(pipe.stdout, 1, k),
                               !.stdout = SubSeq(@, k + 1, Len(@)),
                               !.copier = "buffer"]
    /\ UNCHANGED <<nssVars, ociVars, copyVars, ldso, unpack, push, build>>

\* the write of io.MultiWriter(&b, gzipHash): to the buffer
CopyToBuffer ==
    /\ pipe.copier = "buffer"
    /\ pipe' = [pipe EXCEPT !.b = @ \o pipe.held, !.copier = "hash"]
    /\ UNCHANGED <<nssVars, ociVars, copyVars, ldso, unpack, push, build>>

\* and then to gzipHash
CopyToHash ==
    /\ pipe.copier = "hash"
    /\ pipe' = [pipe EXCEPT !.gzipHash = @ \o pipe.held, !.held = <<>>, !.copier = "read"]
    /\ UNCHANGED <<nssVars, ociVars, copyVars, ldso, unpack, push, build>>

\* the read meets the end of the pipe: the goroutine returns, wg.Done()
CopyEof ==
    /\ pipe.copier = "read"
    /\ pipe.stdout = <<>>
    /\ ~pipe.stdoutOpen
    /\ pipe' = [pipe EXCEPT !.copier = "done"]
    /\ UNCHANGED <<nssVars, ociVars, copyVars, ldso, unpack, push, build>>

NextPipe ==
    \/ DoLayerFromPath \/ WriteTar \/ WalkError \/ CloseTar \/ CloseGzip \/ WaitPigz
    \/ ReadTarHash \/ ReadGzipHash \/ ReadBuffer
    \/ PigzStep \/ PigzEof \/ CopyRead \/ CopyToBuffer \/ CopyToHash \/ CopyEof

SpecPipe == InitPipe /\ [][NextPipe]_vars

(***************************************************************************)
(* Claims about layerFromPath, checked under SpecPipe.                     *)
(***************************************************************************)
LayerReturned == pipe.pc = "done" /\ pipe.err = ""

\* C16: the layer that layerFromPath returns has as Desc.Digest the sha256
\* of the bytes of layer.Data, which are the whole compressed stream, and
\* as DiffID the sha256 of the uncompressed tar stream, with gzip.Writer
\* and with the concurrent pigz pipe.
C16_LayerDigests ==
    LayerReturned =>
        /\ pipe.Digest = digest(pipe.Data)
        /\ pipe.DiffID = digest(pipe.stream)
        /\ pipe.Data = GzStream(pipe.stream)

\* a layer of two bytes and the footer compressed through pigz
C16_Witness ==
    /\ LayerReturned
    /\ pipe.pigz
    /\ pipe.stream = <<"a", "b", "0">>
    /\ pipe.Data = <<"H", "za", "zb", "z0", "T">>
    /\ pipe.copier = "done"

(***************************************************************************)
(* CopyTree over trees whose files depend on each other: /bin/app needs    *)
(* liba.so, which needs libb.so, which may need liba.so again; /bin/tool   *)
(* has an interpreter and needs nothing; /bin/sh is a script; /a and /b    *)
(* are symlinks to each other; libnss_files.so.2 is the NSS library there. *)
(***************************************************************************)
LdSo == <<"", "lib", "ld.so">>

Interps == {LdSo, <<"", "a">>}

Lib(name, needs) == File(<<"c", "lib", name>>, "0755", Elf(needs, <<>>, <<>>))

DepsTree(interp, cyc) ==
    {<<<<"c">>, DirNode>>, <<<<"c", "bin">>, DirNode>>, <<<<"c", "lib">>, DirNode>>,
     <<<<"c", "a">>, LinkNode(<<"b">>)>>, <<<<"c", "b">>, LinkNode(<<"a">>)>>,
     File(<<"c", "bin", "app">>, "0755", Elf(<<"liba.so">>, <<>>, interp)),
     File(<<"c", "bin", "tool">>, "0755", Elf(<<>>, <<>>, LdSo)),
     File(<<"c", "bin", "sh">>, "0755", NoElf),
     Lib("ld.so", <<>>), Lib("libnss_files.so.2", <<>>),
     Lib("liba.so", <<"libb.so">>),
     Lib("libb.so", IF cyc THEN <<"liba.so">> ELSE <<>>)}

\* soMap as SetSoPaths leaves it when ldconfig lists /lib, and when it lists
\* nothing
DepsSoMaps ==
    {<<>>,
     [lib \in {"liba.so", "libb.so", "libnss_files.so.2"} |-> <<"", "lib", lib>>]}

DepsGlobs ==
    {<<<<"bin", "app">>>>, <<<<"bin", "tool">>>>, <<<<"a">>>>, <<<<"bin">>>>,
     <<<<"bin", "sh">>, <<"", "bin", "app">>>>}

\* CopyTree(baseDir, outputDir, globs, nil, nss, true, true)
CallNss(globs, nss, soMap) == [Call(globs, <<>>, TRUE, soMap) EXCEPT !.nss = nss]

InitDeps ==
    /\ \E interp \in Interps, cyc \in BOOLEAN, nss \in BOOLEAN,
          globs \in DepsGlobs, soMap \in DepsSoMaps :
          /\ fs = FsOf(HostTree \cup DepsTree(interp, cyc) \cup OutputTree)
          /\ copyCfg = CallNss(globs, nss, soMap)
    /\ stack = <<>>
    /\ copyRet = [pc |-> "ready", err |-> ""]
    /\ copyLog = NoLog
    /\ resolver = NoResolver
    /\ NssIdle
    /\ OciIdle
    /\ RestIdle

SpecDeps == InitDeps /\ [][NextCopy]_vars

\* a walk in progress is not stopped: the walk function is called on the
\* next path and returns, its loop over the symlinks pass by pass.  The walk
\* function has a step on every path, so that a step of it is enabled
\* exactly while a walk is in progress.
WalkFair == []<>~Walking \/ []<><<Resolve \/ Visit \/ FailWalk \/ FailDep>>_vars

\* CopyTree is not stopped while it has a step to take
SpecDepsLive ==
    SpecDeps /\ WF_vars(DoCopyTree \/ WalkPath \/ WalkDep \/ Return) /\ WalkFair

(***************************************************************************)
(* CopyTree with nss: where the NSS libraries are added.                   *)
(***************************************************************************)
\* C17: in a CopyTree with follow and nss, the NSS libraries are resolved and
\* added only for an executable that a walk of a path of the globs came to,
\* never for a file that the walk of a dependency came to.
C17_NssOnce ==
    (copyCfg.follow /\ copyCfg.nss)
        => \A c \in copyLog.copied : c.nss # {} => c.walk = "top"

(***************************************************************************)
(* Deps and the interpreter.                                               *)
(***************************************************************************)
\* what Deps returned for the copied executable c holds the interpreter
\* exactly when its file is an ELF with an .interp section, and is empty for
\* a file that is no ELF
InterpAdded(c, elf) ==
    IF ~elf.is THEN c.deps = {}
    ELSE IF elf.interp = <<>> THEN c.deps \cap Interps = {}
    ELSE elf.interp \in c.deps

\* C18: Deps adds the interpreter to its result for every ELF file with an
\* .interp section, with or without DT_NEEDED entries, adds none when the
\* section is absent, and returns the empty set for a file that is no ELF.
C18_Interp ==
    copyCfg.follow => \A c \in copyLog.copied : c.exec => InterpAdded(c, fs[c.src].elf)

(***************************************************************************)
(* walkAndCopySymlinks: the bound of its loop.  resolver.n is n of the     *)
(* loop, the number of iterations the call in progress has performed.     *)
(***************************************************************************)
\* C19: walkAndCopySymlinks performs at most 255 iterations of its loop, and
\* a call that has ended on a path that needed more has ended with the error
\* "too many links".
C19_MaxIter ==
    /\ resolver.n <= 255
    /\ (resolver.over /\ resolver.path # <<>> /\ resolver.n >= 255)
          => resolver.err = "too many links"

(***************************************************************************)
(* CopyTree with follow on trees whose dependencies form a cycle.          *)
(***************************************************************************)
\* no source file was copied, and so handed to Deps, twice in the call
NoRecopy ==
    \A i, j \in 1..Len(copyLog.order) : copyLog.order[i] = copyLog.order[j] => i = j

\* C20: CopyTree with follow returns on every tree, also on one whose needed
\* and interpreter edges form a cycle, and copies and inspects each source
\* file at most once in the call.
C20_Terminates == []NoRecopy /\ <>(copyRet.pc = "done")

CopiedWith(src, dep) == \E c \in copyLog.copied : c.src = src /\ dep \in c.deps

\* CopyTree returned after it copied liba.so and libb.so, which need each
\* other
C20_Witness ==
    /\ copyRet.pc = "done"
    /\ CopiedWith(<<"c", "lib", "liba.so">>, <<"", "lib", "libb.so">>)
    /\ CopiedWith(<<"c", "lib", "libb.so">>, <<"", "lib", "liba.so">>)

(***************************************************************************)
(* walkAndCopySymlinks: where the path it returns lies.                    *)
(***************************************************************************)
\* the path p, taken from the working directory when relative, is chrootDir
\* or lies beneath it
Inside(cfg, p) == HasPrefix(Abs(p), cfg.chrootDir)

\* C21: the path walkAndCopySymlinks returns lies inside chrootDir whenever
\* the path it was called with does, whatever the symlinks of the source
\* tree are.
C21_InsideChroot ==
    (resolver.over /\ resolver.err = "" /\ Inside(copyCfg, NextPath))
        => Inside(copyCfg, WalkReturn(resolver, fs).path)

(***************************************************************************)
(* CopyTree: the excludes.                                                 *)
(***************************************************************************)
\* the name of the source file at loc relative to the base directory, as
\* filepath.Glob in the base directory gives it
BaseRelative(loc) ==
    IF HasPrefix(loc, Cwd) THEN SubSeq(loc, Len(Cwd) + 1, Len(loc)) ELSE <<"">> \o loc

\* C23: CopyTree copies no file whose name relative to the base directory is
\* in the expanded exclude set, whether the walk of a glob, a followed
\* symlink or the walk of a dependency came to it.
C23_Excluded ==
    \A c \in copyLog.copied : BaseRelative(c.src) \notin copyCfg.exs

(***************************************************************************)
(* CopyTree: the errors of its walk steps.                                 *)
(***************************************************************************)
\* C25: a CopyTree that has returned after a call of the walk function
\* failed, in the walk of a glob path or of a dependency, has returned an
\* error; a dangling symlink met with follow is no failure.
C25_ErrorReturned ==
    (copyRet.pc = "done" /\ copyLog.failed # {}) => copyRet.err # ""

(***************************************************************************)
(* CopyTree into an output tree that holds entries already: what an        *)
(* earlier CopyTree into the same output directory left at /bin/app and at *)
(* /lib64.  The source is the tree with /lib64 -> usr/lib64.               *)
(***************************************************************************)
OutApps == {"none", "file", "dir", "link"}

OutLinks == {"none", "same", "other", "file", "dir"}

OverModes == {"0755", "0700", "0644"}

\* the contents of a file that another source tree has under the name
OtherElf == Elf(<<"libz.so">>, <<>>, <<>>)

\* the entry of the kind at /bin/app of the output, with its directory
OutputApp(kind) ==
    IF kind = "none" THEN {}
    ELSE {<<<<"o", "bin">>, DirNode>>,
          IF kind = "file" THEN File(<<"o", "bin", "app">>, "0644", OtherElf)
          ELSE IF kind = "dir" THEN <<<<"o", "bin", "app">>, DirNode>>
          ELSE <<<<"o", "bin", "app">>, LinkNode(<<"gone">>)>>}

\* the entry of the kind at /lib64 of the output
OutputLink(kind) ==
    IF kind = "none" THEN {}
    ELSE IF kind = "same" THEN {<<<<"o", "lib64">>, LinkNode(<<"usr", "lib64">>)>>}
    ELSE IF kind = "other" THEN {<<<<"o", "lib64">>, LinkNode(<<"lib">>)>>}
    ELSE IF kind = "file" THEN {File(<<"o", "lib64">>, "0644", OtherElf)}
    ELSE {<<<<"o", "lib64">>, DirNode>>}

OverGlobs == {<<<<"bin", "app">>>>, <<<<"lib64">>>>, <<<<"bin">>>>, <<<<"usr">>>>}

InitOver ==
    /\ \E app \in OutApps, link \in OutLinks, mode \in OverModes, follow \in BOOLEAN,
          globs \in OverGlobs :
          /\ fs = FsOf(HostTree \cup SourceTree("lib64", <<"usr", "lib64">>, mode, TRUE)
                       \cup OutputTree \cup OutputApp(app) \cup OutputLink(link))
          /\ copyCfg = Call(globs, <<>>, follow, SoMapOf("lib64", TRUE))
    /\ stack = <<>>
    /\ copyRet = [pc |-> "ready", err |-> ""]
    /\ copyLog = NoLog
    /\ resolver = NoResolver
    /\ NssIdle
    /\ OciIdle
    /\ RestIdle

SpecOver == InitOver /\ [][NextCopy]_vars

\* the symlink pass of walkAndCopySymlinks that is next: the variables of the
\* loop, the element at the front of the path and the output path of it
NextLoop == IF resolver.on THEN resolver ELSE walkAndCopySymlinks(NextPath)

NextCurrent == NextLoop.b \o <<Head(NextLoop.path)>>

NextSymlink ==
    /\ Walking
    /\ ~Resolved
    /\ NextLoop.path # <<>>
    /\ NextLoop.n <= maxIter
    /\ Head(NextLoop.path) # ""
    /\ Lstat(fs, NextCurrent).err = ""
    /\ fs[Lstat(fs, NextCurrent).loc].type = "link"

NextOutput == PathJoin(outputDir, TrimPrefix(NextCurrent, copyCfg.chrootDir))

\* the entry at the output path is a symlink of the text of the source's
SameLink(there, here) ==
    fs[there.loc].type = "link" /\ fs[there.loc].text = fs[here.loc].text

\* C22: when walkAndCopySymlinks is to make a symlink at an output path
\* that is there, then with a symlink of the same text there the pass goes on
\* without error, with any other entry there the call returns the error, and
\* in both cases the file system is left as it is.
C22_ExistingSymlink ==
    [][(NextSymlink /\ Lstat(fs, NextOutput).err = "")
          => /\ fs' = fs
             /\ IF SameLink(Lstat(fs, NextOutput), Lstat(fs, NextCurrent))
                THEN ~resolver'.over /\ resolver'.err = ""
                ELSE resolver'.over /\ resolver'.err = "EEXIST"]_vars

\* a pass has gone on over a symlink that an earlier walk of the call went
\* over, and so found in the output
C22_Witness ==
    /\ resolver.on
    /\ ~resolver.over
    /\ resolver.traversed \cap copyLog.traversed # {}

(***************************************************************************)
(* copier at an output path that is there.                                 *)
(***************************************************************************)
\* the path the walk function goes on with once the symlinks are followed
StepPath == IF copyCfg.follow THEN WalkReturn(resolver, fs).path ELSE NextPath

\* the walk function comes as far as the output path: the path is there and
\* not excluded, and with follow its symlinks were followed without error
StepReaches ==
    /\ Walking
    /\ Resolved
    /\ TrimPrefix(NextPath, copyCfg.chrootDir) \notin copyCfg.exs
    /\ copyCfg.follow => (resolver.over /\ resolver.err = "")
    /\ TrimPrefix(StepPath, copyCfg.chrootDir) \notin copyCfg.exs
    /\ Lstat(fs, StepPath).err = ""

StepOutput == PathJoin(outputDir, TrimPrefix(StepPath, copyCfg.chrootDir))

\* the entry at loc and all beneath it are in g as they are in f
Untouched(f, g, loc) ==
    \A l \in DOMAIN f : HasPrefix(l, loc) => (l \in DOMAIN g /\ g[l] = f[l])

\* the entry at the output path in g is the source at src of f: a file of
\* its contents or a symlink of its text
Replaced(f, g, src, out) ==
    /\ out.err = ""
    /\ g[out.loc].type = f[src.loc].type
    /\ g[out.loc].elf = f[src.loc].elf
    /\ g[out.loc].text = f[src.loc].text

\* C24: when the output path of a step of the walk is there, a walk with
\* follow and a step on a directory leave the entry there as it is, and a
\* walk without follow on a file or symlink puts the source in its place.
C24_Overwrite ==
    [][(StepReaches /\ Stat(fs, StepOutput).err = "")
          => IF copyCfg.follow \/ fs[Lstat(fs, StepPath).loc].type = "dir"
             THEN Untouched(fs, fs', Lstat(fs, StepOutput).loc)
             ELSE Replaced(fs, fs', Lstat(fs, StepPath), Lstat(fs', StepOutput))]_vars

\* a walk without follow is about to copy the file /bin/app to the output
\* path at which the file of another tree is
C24_Witness ==
    /\ StepReaches
    /\ ~copyCfg.follow
    /\ Stat(fs, StepOutput).err = ""
    /\ fs[Lstat(fs, StepPath).loc].type = "file"
    /\ fs[Lstat(fs, StepOutput).loc].elf = OtherElf

(***************************************************************************)
(* CopyTree and the source tree.                                           *)
(***************************************************************************)
\* C27: no step of CopyTree changes the source tree: every entry under the
\* base directory keeps its contents and its permission bits.
C27_SourceUnchanged ==
    [][\A l \in DOMAIN fs : HasPrefix(l, Cwd) => (l \in DOMAIN fs' /\ fs'[l] = fs[l])]_vars

(***************************************************************************)
(* PutObject and the 401 answers.                                          *)
(***************************************************************************)
\* C26: within the PutObject of one object a 401 makes the call get a token
\* and try again at most once: a second 401 for the object is the last
\* request, and the call has returned an error.
C26_OneRetry ==
    \A i, j \in 1..Len(push.log) :
        (/\ i < j
         /\ push.log[i].code = 401 /\ push.log[j].code = 401
         /\ push.log[i].obj = push.log[j].obj)
            => (j = Len(push.log) /\ push.pc = "done" /\ push.err # "")

(***************************************************************************)
(* extractLayer and the destination directory.                             *)
(***************************************************************************)
\* the entries that are not in the destination directory
Outside(f) == {l \in DOMAIN f : ~HasPrefix(l, Tail(outputDir))}

\* C28: when extractLayer has processed a tar entry, every entry of the file
\* system that is not in the destination directory is as it was before:
\* none was created, overwritten or removed.
C28_InsideDestination ==
    (unpack.pc \in {"layer", "done"} /\ unpack.hdr # NoHdr) =>
        /\ Outside(unpack.fs) = Outside(unpack.prev)
        /\ \A l \in Outside(unpack.prev) : unpack.fs[l] = unpack.prev[l]

(***************************************************************************)
(* buildContainer (build.go): runs of smith, one after another, on a host  *)
(* whose per-uid unpack directory outlives the run.  A run with an OCI     *)
(* package goes through buildOci; every run that gets as far as packing    *)
(* makes the image config with configFromDef.                              *)
(***************************************************************************)
MaxRuns == 3

MaxImages == 2

\* the packages: none (0) or the image i, every image of MaxLayers layers
Packages == 0..MaxImages

MountLists == {<<>>, <<"m">>, <<"m", "n">>}

BuildDefs == [Package : Packages, Mounts : MountLists]

\* the unpack directory: absent, or made for an image with so many of its
\* layers extracted
NoDir == [exists |-> FALSE, image |-> 0, layers |-> 0]

UnpackDir(i, n) == [exists |-> TRUE, image |-> i, layers |-> n]

\* a Go map that was never made
NilMap == [nil |-> TRUE, keys |-> {}]

\* m[k] = struct{}{}: a write to a nil map is a runtime fault
SetVolume(m, k) ==
    IF m.nil THEN [panic |-> TRUE, m |-> m]
    ELSE [panic |-> FALSE, m |-> [m EXCEPT !.keys = @ \cup {k}]]

InitBuild ==
    /\ build = [pc |-> "ready", runs |-> 0, fast |-> FALSE,
                def |-> [Package |-> 0, Mounts |-> <<>>], dir |-> NoDir,
                read |-> NoDir, Volumes |-> NilMap, i |-> 0,
                err |-> "", ok |-> FALSE, fault |-> FALSE]
    /\ NssIdle
    /\ OciIdle
    /\ CopyIdle
    /\ ldso = NoLdso
    /\ unpack = NoUnpack
    /\ push = NoPush
    /\ pipe = NoPipe

BuildFrame == UNCHANGED <<nssVars, ociVars, copyVars, ldso, unpack, push, pipe>>

\* the run returns false with err logged
BuildFails(err) == build' = [build EXCEPT !.pc = "done", !.err = err]

\* buildContainer(tarfile, buildOpts) begins: the definition is read and, if
\* it names a package, installPackage calls buildOci
DoBuildContainer ==
    /\ build.pc \in {"ready", "done"}
    /\ build.runs < MaxRuns
    /\ \E def \in BuildDefs, fast \in BOOLEAN :
          build' = [build EXCEPT !.pc = IF def.Package = 0 THEN "mounts" ELSE "buildOci",
                                 !.runs = @ + 1, !.fast = fast, !.def = def,
                                 !.read = NoDir, !.Volumes = NilMap, !.i = 0,
                                 !.err = "", !.ok = FALSE, !.fault = FALSE]
    /\ BuildFrame

\* buildOci: imageFromRemote or imageFromFile of the package
ReadPackage ==
    /\ build.pc = "buildOci"
    /\ \/ build' = [build EXCEPT !.pc = "remove"]
       \/ BuildFails("image")
    /\ BuildFrame

\* buildOci: os.RemoveAll(unpackDir) unless the run is fast
RemoveUnpackDir ==
    /\ build.pc = "remove"
    /\ IF build.fast THEN build' = [build EXCEPT !.pc = "stat"]
       ELSE \/ build' = [build EXCEPT !.pc = "stat", !.dir = NoDir]
            \/ BuildFails("remove")
    /\ BuildFrame

\* buildOci: os.Stat(unpackDir), and os.MkdirAll when it is not there
StatUnpackDir ==
    /\ build.pc = "stat"
    /\ IF build.dir.exists THEN build' = [build EXCEPT !.pc = "sopaths"]
       ELSE \/ build' = [build EXCEPT !.pc = "extract",
                                      !.dir = UnpackDir(build.def.Package, 0)]
            \/ BuildFails("mkdir")
    /\ BuildFrame

\* ExtractOci(image, unpackDir): the next layer is extracted, or extractLayer
\* returns an error and buildOci returns it
ExtractLayer ==
    /\ build.pc = "extract"
    /\ build.dir.layers < MaxLayers
    /\ \/ build' = [build EXCEPT !.dir.layers = @ + 1]
       \/ BuildFails("extract")
    /\ BuildFrame

\* ExtractOci returns nil
ExtractDone ==
    /\ build.pc = "extract"
    /\ build.dir.layers = MaxLayers
    /\ build' = [build EXCEPT !.pc = "sopaths"]
    /\ BuildFrame

\* buildOci: SetSoPathsFromExecutor(executor)
SetSoPathsFromExecutor ==
    /\ build.pc = "sopaths"
    /\ \/ build' = [build EXCEPT !.pc = "copy"]
       \/ BuildFails("ldconfig")
    /\ BuildFrame

\* buildOci: CopyTree(unpackDir, outputDir, ...) reads the unpack directory
CopyUnpacked ==
    /\ build.pc = "copy"
    /\ \/ build' = [build EXCEPT !.pc = "mounts", !.read = build.dir]
       \/ build' = [build EXCEPT !.pc = "done", !.read = build.dir, !.err = "copy"]
    /\ BuildFrame

\* buildContainer after installPackage: the mount points, the metadata and
\* the overlay; then WriteOciFromBuild, and in it configFromDef
MakeMounts ==
    /\ build.pc = "mounts"
    /\ \/ build' = [build EXCEPT !.pc = "config"]
       \/ BuildFails("overlay")
    /\ BuildFrame

\* configFromDef: one pass of the loop over def.Mounts
AddVolume ==
    /\ build.pc = "config"
    /\ build.i < Len(build.def.Mounts)
    /\ build' = [build EXCEPT
                    !.pc = IF SetVolume(build.Volumes, build.def.Mounts[build.i + 1]).panic
                           THEN "done" ELSE "config",
                    !.fault = SetVolume(build.Volumes, build.def.Mounts[build.i + 1]).panic,
                    !.Volumes = SetVolume(build.Volumes, build.def.Mounts[build.i + 1]).m,
                    !.i = @ + 1]
    /\ BuildFrame

\* configFromDef returns the config, the image is packed and the run is over
ConfigReturn ==
    /\ build.pc = "config"
    /\ build.i = Len(build.def.Mounts)
    /\ build' = [build EXCEPT !.pc = "done", !.ok = TRUE]
    /\ BuildFrame

NextBuild ==
    \/ DoBuildContainer \/ ReadPackage \/ RemoveUnpackDir \/ StatUnpackDir
    \/ ExtractLayer \/ ExtractDone \/ SetSoPathsFromExecutor \/ CopyUnpacked
    \/ MakeMounts \/ AddVolume \/ ConfigReturn

SpecBuild == InitBuild /\ [][NextBuild]_vars

(***************************************************************************)
(* Claims about buildContainer, checked under SpecBuild.                   *)
(***************************************************************************)
\* C29: configFromDef makes the config of every definition without a
\* runtime fault, and the config it returns has every mount of the
\* definition among its volumes.
C29_Volumes ==
    /\ ~build.fault
    /\ build.ok => \A i \in 1..Len(build.def.Mounts) :
                       build.def.Mounts[i] \in build.Volumes.keys

\* C30: whenever CopyTree is about to read the unpack directory, the
\* directory is there and holds all layers of the image of this run's package.
C30_CompleteUnpack ==
    build.pc = "copy" =>
        /\ build.dir.exists
        /\ build.dir.image = build.def.Package
        /\ build.dir.layers = MaxLayers

====
